---- MODULE Spec2Model ----
(***************************************************************************)
(* Model of the multi-core processor simulator (jasonKoogler/cpu-sim):     *)
(* the per-core pipeline (internal/pipeline), the core driver              *)
(* (internal/core) and the concurrent simulator (internal/simulator).      *)
(***************************************************************************)
EXTENDS Integers, Sequences, FiniteSets, TLC

\* ------------------------------------------------------------------------
\* Bounds of the model
\* ------------------------------------------------------------------------

\* Number of simulated cores (config.NumCores) the simulator is built with
\* under RunSeqSpec, where the workers of a Run interleave undisturbed, and
\* under FairSeqSpec.
NumCores == 2

\* Number of cores the simulator is built with under SeqSpec and DeepSeqSpec,
\* where a Shutdown may arrive at any step of a worker.
StopCores == 1

\* Largest cycle count handed to Run under RunSeqSpec and DeepSeqSpec:
\* enough for an instruction to be fetched and counted as executed.
MaxCycles == 5

\* Largest cycle count handed to Run under SeqSpec, where Shutdown may stop
\* a Run after any of its cycles.
StopCycles == 3

\* Number of Run / Shutdown / Reset invocations in one behaviour of SeqSpec
\* and of DeepSeqSpec.
MaxCalls == 4

\* Number of cores and of invocations in one behaviour of Spec, where every
\* thread may call everything at any time.
ConcCores == 2
ConcCalls == 3

\* Number of cores and of invocations in one behaviour of PairSpec: one call
\* of each thread, the second made at any moment of the first.
PairCores == 1
PairCalls == 2

\* Numbers of Cycle, Reset, GetUtilization calls and register writes made on
\* the Processor in one behaviour of ProcSpec.
ProcMaxCycles == 10
ProcMaxResets == 1
ProcMaxReads == 1
ProcMaxWrites == 1

\* Numbers of Cycle and Reset calls and of writes through the slice
\* GetPipelineState returned made on the Processor in one behaviour of
\* CoreSpec, where one goroutine makes the calls one after the other.
CoreMaxCycles == 100
CoreMaxResets == 1
CoreMaxWrites == 1

\* Number of AdvanceStages, InsertInstruction and Flush calls made on the
\* Pipeline in one behaviour of PipeSpec.
PipeMaxOps == 9

\* Number of calls made on the Pipeline and of writes made through the slice
\* GetStages returned in one behaviour of SnapSpec.
SnapMaxOps == 7

\* Largest depth handed to NewPipeline in CtorSpec.
MaxDepth == 13

\* Number of AdvanceStages, InsertInstruction and Flush calls made on the
\* Pipeline in one behaviour of DrainSpec before only AdvanceStages is called.
DrainMaxOps == 7

\* Number of calls made on the simulator in one behaviour of RunSeqSpec.
RunSeqCalls == 2

\* ------------------------------------------------------------------------
\* Program constants
\* ------------------------------------------------------------------------

\* The synthetic workload fetches on every FetchInterval-th cycle.
FetchInterval == 5

\* fetchNextInstruction advances the program counter by InstrBytes.
InstrBytes == 4

\* The number of cycles TestCycle and TestRun drive the default configuration.
TestCycles == 100

\* ------------------------------------------------------------------------
\* Pipeline (package pipeline)
\* ------------------------------------------------------------------------

Digit == <<"0", "1", "2", "3", "4", "5", "6", "7", "8", "9">>

\* fmt.Sprintf("%d", n) for n >= 0
RECURSIVE Itoa(_)
Itoa(n) == IF n < 10 THEN Digit[n + 1] ELSE Itoa(n \div 10) \o Digit[(n % 10) + 1]

\* A stage that takes FetchInterval cycles more than its latency.
StageSlow(name, latency) ==
    [Name |-> name, Busy |-> FALSE, Instruction |-> <<>>, Latency |-> latency + FetchInterval]

\* &Stage{Name: name, Busy: false, Latency: latency}; a nil Instruction
\* pointer is the empty sequence, a non-nil one is <<instruction>>.
Stage(name, latency) ==
    [Name |-> name, Instruction |-> <<>>, Busy |-> FALSE, Latency |-> latency]

\* Stage names of the deep x86 topology: positions 0..10 are named, the
\* positions from 11 on are ExtraStage1, ExtraStage2, ...
DeepX86Name(i) ==
    IF i <= 10
    THEN <<"Fetch1", "Fetch2", "Decode1", "Decode2", "Decode3", "Rename",
           "Schedule", "Dispatch", "Execute", "Memory", "Writeback">>[i + 1]
    ELSE "ExtraStage" \o Itoa(i - 10)

\* Name of the middle stage i (0-based, 2 <= i < depth-2) of the generic topology.
GenericMiddleName(i, depth) ==
    IF i = 2 /\ depth > 4 THEN "Issue"
    ELSE IF i = 3 /\ depth > 5 THEN "Memory"
    ELSE "Stage" \o Itoa(i)

\* The generic topology is built by successive assignments to Stages[..];
\* a later assignment to the same index overwrites an earlier one, so the
\* name of position i (0-based) is decided by the last assignment that hits it.
GenericName(i, depth) ==
    IF depth = 3
    THEN (IF i = 1 THEN "Execute" ELSE IF i = depth - 1 THEN "Writeback" ELSE "Fetch")
    ELSE IF i >= 2 /\ i < depth - 2 THEN GenericMiddleName(i, depth)
    ELSE IF i = depth - 2 THEN "Execute"
    ELSE IF i = 1 THEN "Decode"
    ELSE IF i = depth - 1 THEN "Writeback"
    ELSE "Fetch"

\* NewPipeline(depth, isa): [err |-> "depth"] when depth <= 0, [err |-> "panic"]
\* when the constructor indexes past the slice (generic topology of depth 1
\* assigns Stages[1]), else [err |-> "", Stages |-> the stage sequence].
NewPipeline(depth, isa) ==
    IF depth <= 0 THEN [err |-> "depth", Stages |-> <<>>]
    ELSE IF depth = 5 /\ isa \in {"RISC-V", "MIPS"}
    THEN [err |-> "",
          Stages |-> <<Stage("Fetch", 1), Stage("Decode", 1), Stage("Execute", 1),
                       Stage("Memory", 1), Stage("Writeback", 1)>>]
    ELSE IF depth = 6 /\ isa = "x86"
    THEN [err |-> "",
          Stages |-> <<Stage("Fetch", 1), Stage("Decode", 2), Stage("Issue", 1),
                       Stage("Execute", 1), Stage("Memory", 1), Stage("Writeback", 1)>>]
    ELSE IF depth > 10 /\ isa = "x86"
    THEN [err |-> "", Stages |-> [i \in 1..depth |-> Stage(DeepX86Name(i - 1), 1)]]
    ELSE IF depth # 3 /\ depth < 2
    THEN [err |-> "panic", Stages |-> <<>>]
    ELSE [err |-> "", Stages |-> [i \in 1..depth |-> Stage(GenericName(i - 1, depth), 1)]]

\* The loop body of AdvanceStages for the stages i, i-1, ..., 1 (1-based),
\* last stage first; work is the workDone flag so far.
RECURSIVE AdvanceFrom(_, _, _)
AdvanceFrom(stages, i, work) ==
    IF i = 0 THEN [Stages |-> stages, workDone |-> work]
    ELSE IF stages[i].Busy /\ stages[i].Instruction # <<>>
    THEN LET inst == [stages[i].Instruction[1] EXCEPT !.CyclesLeft = @ - 1]
             dec  == [stages EXCEPT ![i].Instruction = <<inst>>]
         IN IF inst.CyclesLeft <= 0
            THEN IF i = Len(stages)
                 THEN AdvanceFrom([dec EXCEPT ![i].Instruction = <<>>,
                                              ![i].Busy = FALSE], i - 1, TRUE)
                 ELSE IF ~dec[i + 1].Busy
                 THEN AdvanceFrom(
                        [dec EXCEPT ![i + 1].Instruction =
                                        <<[inst EXCEPT !.CyclesLeft = dec[i + 1].Latency]>>,
                                    ![i + 1].Busy = TRUE,
                                    ![i].Instruction = <<>>,
                                    ![i].Busy = FALSE], i - 1, TRUE)
                 ELSE AdvanceFrom(dec, i - 1, TRUE)
            ELSE AdvanceFrom(dec, i - 1, TRUE)
    ELSE AdvanceFrom(stages, i - 1, work)

\* The loop body of AdvanceStages applied to the stages i, i+1, ..., first
\* stage first.
RECURSIVE AdvanceForwardFrom(_, _, _)
AdvanceForwardFrom(stages, i, work) ==
    IF i > Len(stages) THEN [Stages |-> stages, workDone |-> work]
    ELSE IF stages[i].Busy /\ stages[i].Instruction # <<>>
    THEN LET inst == [stages[i].Instruction[1] EXCEPT !.CyclesLeft = @ - 1]
             dec  == [stages EXCEPT ![i].Instruction = <<inst>>]
         IN IF inst.CyclesLeft <= 0
            THEN IF i = Len(stages)
                 THEN AdvanceForwardFrom([dec EXCEPT ![i].Instruction = <<>>,
                                                     ![i].Busy = FALSE], i + 1, TRUE)
                 ELSE IF ~dec[i + 1].Busy
                 THEN AdvanceForwardFrom(
                        [dec EXCEPT ![i + 1].Instruction =
                                        <<[inst EXCEPT !.CyclesLeft = dec[i + 1].Latency]>>,
                                    ![i + 1].Busy = TRUE,
                                    ![i].Instruction = <<>>,
                                    ![i].Busy = FALSE], i + 1, TRUE)
                 ELSE AdvanceForwardFrom(dec, i + 1, TRUE)
            ELSE AdvanceForwardFrom(dec, i + 1, TRUE)
    ELSE AdvanceForwardFrom(stages, i + 1, work)

\* AdvanceStages that walks the stages from the first to the last.
AdvanceStagesFirstToLast(stages) == AdvanceForwardFrom(stages, 1, FALSE)

\* The loop body of AdvanceStages without
\* "nextStage.Instruction.CyclesLeft = nextStage.Latency".
RECURSIVE AdvanceFromKeepsCyclesLeft(_, _, _)
AdvanceFromKeepsCyclesLeft(stages, i, work) ==
    IF i = 0 THEN [Stages |-> stages, workDone |-> work]
    ELSE IF stages[i].Busy /\ stages[i].Instruction # <<>>
    THEN LET inst == [stages[i].Instruction[1] EXCEPT !.CyclesLeft = @ - 1]
             dec  == [stages EXCEPT ![i].Instruction = <<inst>>]
         IN IF inst.CyclesLeft <= 0
            THEN IF i = Len(stages)
                 THEN AdvanceFromKeepsCyclesLeft([dec EXCEPT ![i].Instruction = <<>>,
                                                             ![i].Busy = FALSE], i - 1, TRUE)
                 ELSE IF ~dec[i + 1].Busy
                 THEN AdvanceFromKeepsCyclesLeft(
                        [dec EXCEPT ![i + 1].Instruction = <<inst>>,
                                    ![i + 1].Busy = TRUE,
                                    ![i].Instruction = <<>>,
                                    ![i].Busy = FALSE], i - 1, TRUE)
                 ELSE AdvanceFromKeepsCyclesLeft(dec, i - 1, TRUE)
            ELSE AdvanceFromKeepsCyclesLeft(dec, i - 1, TRUE)
    ELSE AdvanceFromKeepsCyclesLeft(stages, i - 1, work)

\* AdvanceStages that does not reset CyclesLeft on entry to the next stage.
AdvanceStagesKeepsCyclesLeft(stages) == AdvanceFromKeepsCyclesLeft(stages, Len(stages), FALSE)

\* The loop body of AdvanceStages without the test "!nextStage.Busy": a
\* finished instruction moves on even into an occupied stage.
RECURSIVE AdvanceFromIgnoresBusy(_, _, _)
AdvanceFromIgnoresBusy(stages, i, work) ==
    IF i = 0 THEN [Stages |-> stages, workDone |-> work]
    ELSE IF stages[i].Busy /\ stages[i].Instruction # <<>>
    THEN LET inst == [stages[i].Instruction[1] EXCEPT !.CyclesLeft = @ - 1]
             dec  == [stages EXCEPT ![i].Instruction = <<inst>>]
         IN IF inst.CyclesLeft <= 0
            THEN IF i = Len(stages)
                 THEN AdvanceFromIgnoresBusy([dec EXCEPT ![i].Instruction = <<>>,
                                                         ![i].Busy = FALSE], i - 1, TRUE)
                 ELSE AdvanceFromIgnoresBusy(
                        [dec EXCEPT ![i + 1].Instruction =
                                        <<[inst EXCEPT !.CyclesLeft = dec[i + 1].Latency]>>,
                                    ![i + 1].Busy = TRUE,
                                    ![i].Instruction = <<>>,
                                    ![i].Busy = FALSE], i - 1, TRUE)
            ELSE AdvanceFromIgnoresBusy(dec, i - 1, TRUE)
    ELSE AdvanceFromIgnoresBusy(stages, i - 1, work)

\* AdvanceStages that never stalls.
AdvanceStagesIgnoresBusy(stages) == AdvanceFromIgnoresBusy(stages, Len(stages), FALSE)

\* The loop body of AdvanceStages with the occupancy of the next stage read
\* from the stages as they were when the call began (orig).
RECURSIVE AdvanceFromStaleBusy(_, _, _, _)
AdvanceFromStaleBusy(stages, orig, i, work) ==
    IF i = 0 THEN [Stages |-> stages, workDone |-> work]
    ELSE IF stages[i].Busy /\ stages[i].Instruction # <<>>
    THEN LET inst == [stages[i].Instruction[1] EXCEPT !.CyclesLeft = @ - 1]
             dec  == [stages EXCEPT ![i].Instruction = <<inst>>]
         IN IF inst.CyclesLeft <= 0
            THEN IF i = Len(stages)
                 THEN AdvanceFromStaleBusy([dec EXCEPT ![i].Instruction = <<>>,
                                                       ![i].Busy = FALSE], orig, i - 1, TRUE)
                 ELSE IF ~orig[i + 1].Busy
                 THEN AdvanceFromStaleBusy(
                        [dec EXCEPT ![i + 1].Instruction =
                                        <<[inst EXCEPT !.CyclesLeft = dec[i + 1].Latency]>>,
                                    ![i + 1].Busy = TRUE,
                                    ![i].Instruction = <<>>,
                                    ![i].Busy = FALSE], orig, i - 1, TRUE)
                 ELSE AdvanceFromStaleBusy(dec, orig, i - 1, TRUE)
            ELSE AdvanceFromStaleBusy(dec, orig, i - 1, TRUE)
    ELSE AdvanceFromStaleBusy(stages, orig, i - 1, work)

\* AdvanceStages that moves an instruction only into a stage that was free
\* when the call began.
AdvanceStagesStaleBusy(stages) == AdvanceFromStaleBusy(stages, stages, Len(stages), FALSE)

\* Pipeline.AdvanceStages: the new stages and the returned workDone.
\* AdvanceStages that leaves a finished instruction in the final stage.
RECURSIVE AdvanceFromNeverRetires(_, _, _)
AdvanceFromNeverRetires(stages, i, work) ==
    IF i = 0 THEN [Stages |-> stages, workDone |-> work]
    ELSE IF stages[i].Busy /\ stages[i].Instruction # <<>>
    THEN LET inst == [stages[i].Instruction[1] EXCEPT !.CyclesLeft = @ - 1]
             dec  == [stages EXCEPT ![i].Instruction = <<inst>>]
         IN IF inst.CyclesLeft <= 0 /\ i < Len(stages) /\ ~dec[i + 1].Busy
            THEN AdvanceFromNeverRetires(
                   [dec EXCEPT ![i + 1].Instruction =
                                   <<[inst EXCEPT !.CyclesLeft = dec[i + 1].Latency]>>,
                               ![i + 1].Busy = TRUE,
                               ![i].Instruction = <<>>,
                               ![i].Busy = FALSE], i - 1, TRUE)
            ELSE AdvanceFromNeverRetires(dec, i - 1, TRUE)
    ELSE AdvanceFromNeverRetires(stages, i - 1, work)

AdvanceStagesNeverRetires(stages) == AdvanceFromNeverRetires(stages, Len(stages), FALSE)

\* AdvanceStages that leaves a copy of a moved instruction behind.
RECURSIVE AdvanceFromCopies(_, _, _)
AdvanceFromCopies(stages, i, work) ==
    IF i = 0 THEN [Stages |-> stages, workDone |-> work]
    ELSE IF stages[i].Busy /\ stages[i].Instruction # <<>>
    THEN LET inst == [stages[i].Instruction[1] EXCEPT !.CyclesLeft = @ - 1]
             dec  == [stages EXCEPT ![i].Instruction = <<inst>>]
         IN IF inst.CyclesLeft <= 0
            THEN IF i = Len(stages)
                 THEN AdvanceFromCopies([dec EXCEPT ![i].Instruction = <<>>,
                                                    ![i].Busy = FALSE], i - 1, TRUE)
                 ELSE IF ~dec[i + 1].Busy
                 THEN AdvanceFromCopies(
                        [dec EXCEPT ![i + 1].Instruction =
                                        <<[inst EXCEPT !.CyclesLeft = dec[i + 1].Latency]>>,
                                    ![i + 1].Busy = TRUE], i - 1, TRUE)
                 ELSE AdvanceFromCopies(dec, i - 1, TRUE)
            ELSE AdvanceFromCopies(dec, i - 1, TRUE)
    ELSE AdvanceFromCopies(stages, i - 1, work)

AdvanceStagesCopies(stages) == AdvanceFromCopies(stages, Len(stages), FALSE)

\* AdvanceStages that reports work only when an instruction changed stage.
AdvanceStagesWorkOnMove(stages) ==
    LET r == AdvanceFrom(stages, Len(stages), FALSE)
    IN [Stages |-> r.Stages,
        workDone |-> \E i \in DOMAIN stages : r.Stages[i].Busy # stages[i].Busy]

AdvanceStages(stages) == AdvanceFrom(stages, Len(stages), FALSE)

\* Pipeline.IsFull
IsFull(stages) == stages[1].Busy

\* Pipeline.IsEmpty
IsEmpty(stages) == \A i \in 1..Len(stages) : ~stages[i].Busy

\* InsertInstruction that takes the instruction even when stage 0 is busy.
InsertInstructionOverwrites(stages, inst) ==
    [Stages |-> [stages EXCEPT ![1].Instruction =
                                   <<[inst EXCEPT !.CyclesLeft = stages[1].Latency]>>,
                               ![1].Busy = TRUE],
     ok |-> TRUE,
     inst |-> [inst EXCEPT !.CyclesLeft = stages[1].Latency]]

\* Pipeline.InsertInstruction: the new stages, the returned boolean, and the
\* instruction the caller's pointer refers to after the call.
InsertInstruction(stages, inst) ==
    IF stages[1].Busy
    THEN [Stages |-> stages, ok |-> FALSE, inst |-> inst]
    ELSE [Stages |-> [stages EXCEPT ![1].Instruction =
                                        <<[inst EXCEPT !.CyclesLeft = stages[1].Latency]>>,
                                    ![1].Busy = TRUE],
          ok |-> TRUE,
          inst |-> [inst EXCEPT !.CyclesLeft = stages[1].Latency]]

\* The address of the instruction in stage i, -1 when the stage holds none.
Occupant(stages, i) ==
    IF stages[i].Instruction = <<>> THEN -1 ELSE stages[i].Instruction[1].Address

\* The stage that holds instruction id, 0 when none does.
Position(stages, id) ==
    IF \E i \in DOMAIN stages : Occupant(stages, i) = id
    THEN CHOOSE i \in DOMAIN stages : Occupant(stages, i) = id
    ELSE 0

\* Pipeline.GetStages: a new slice of new Stage structs, stageCopy := *stage.
\* The copy of a struct copies its fields, so the Instruction field of a copy
\* is the pointer the live stage holds; the pointer is kept as the address of
\* the instruction it points to (every instruction has its own address).
GetStages(stages) ==
    [i \in DOMAIN stages |->
        [Name        |-> stages[i].Name,
         Instruction |-> IF stages[i].Instruction = <<>> THEN <<>>
                         ELSE <<stages[i].Instruction[1].Address>>,
         Busy        |-> stages[i].Busy,
         Latency     |-> stages[i].Latency]]

\* The stages after "ptr.CyclesLeft = v", where ptr points to the instruction
\* with address id: the stage that holds this instruction, if any, sees v.
StoreCyclesLeft(stages, id, v) ==
    [i \in DOMAIN stages |->
        IF stages[i].Instruction # <<>> /\ stages[i].Instruction[1].Address = id
        THEN [stages[i] EXCEPT !.Instruction = <<[@[1] EXCEPT !.CyclesLeft = v]>>]
        ELSE stages[i]]

\* Flush that clears Busy and leaves the instruction references.
FlushKeepsInstruction(stages) ==
    [i \in 1..Len(stages) |-> [stages[i] EXCEPT !.Busy = FALSE]]

\* Pipeline.Flush
Flush(stages) ==
    [i \in 1..Len(stages) |-> [stages[i] EXCEPT !.Instruction = <<>>, !.Busy = FALSE]]

\* ------------------------------------------------------------------------
\* Core (package core, Processor)
\* ------------------------------------------------------------------------

\* Register-file sizes chosen by NewProcessor for an ISA: <<int, float>>.
RegisterSizes(isa) ==
    IF isa = "RISC-V" THEN <<32, 32>>
    ELSE IF isa = "x86" THEN <<16, 8>>
    ELSE IF isa = "ARM" THEN <<16, 32>>
    ELSE IF isa = "MIPS" THEN <<32, 32>>
    ELSE <<32, 32>>

\* &ExecutionUnit{Type, Busy: false, Pipeline}
ExecutionUnit(type, stages) == [Type |-> type, Busy |-> FALSE, Pipeline |-> stages]

\* The fixed execution-unit inventory NewProcessor allocates.
ExecutionUnits ==
    [ALU       |-> <<ExecutionUnit("ALU", 1), ExecutionUnit("ALU", 1)>>,
     FPU       |-> <<ExecutionUnit("FPU", 3)>>,
     LoadStore |-> <<ExecutionUnit("LoadStore", 1)>>,
     Branch    |-> <<ExecutionUnit("Branch", 1)>>]

\* NewProcessor(id, cfg) for a configuration whose pipeline can be built.
NewProcessor(id, c) ==
    [ID                   |-> id,
     pipeline             |-> NewPipeline(c.PipelineDepth, c.ISA).Stages,
     instructionQueue     |-> <<>>,
     executionUnits       |-> ExecutionUnits,
     registersInt         |-> [i \in 1..RegisterSizes(c.ISA)[1] |-> 0],
     registersFloat       |-> [i \in 1..RegisterSizes(c.ISA)[2] |-> 0],
     pc                   |-> 0,
     executedInstructions |-> 0,
     cycleCount           |-> 0,
     busyCycles           |-> 0]

\* fetchNextInstruction: the synthetic instruction at the program counter
\* (the caller copies it into a pipeline.Instruction with CyclesLeft 1).
FetchNextInstruction(p) ==
    [Address |-> p.pc, Opcode |-> 1, Operands |-> <<1, 2, 3>>,
     Type |-> "Integer", CyclesLeft |-> 1]

\* Processor.Cycle, the whole call (it runs under the core's mutex).
Cycle(p) ==
    LET cc    == p.cycleCount + 1
        adv   == AdvanceStages(p.pipeline)
        fetch == ~IsFull(adv.Stages) /\ cc % FetchInterval = 0
        ins   == IF fetch
                 THEN InsertInstruction(adv.Stages, FetchNextInstruction(p))
                 ELSE [Stages |-> adv.Stages, ok |-> FALSE, inst |-> <<>>]
        work  == adv.workDone \/ ins.ok
        last  == ins.Stages[Len(ins.Stages)]
        done  == Len(ins.Stages) > 0 /\ ~last.Busy /\ cc % FetchInterval = 0
    IN [p EXCEPT !.cycleCount = cc,
                 !.pipeline = ins.Stages,
                 !.pc = IF fetch THEN @ + InstrBytes ELSE @,
                 !.executedInstructions = IF done THEN @ + 1 ELSE @,
                 !.busyCycles = IF work THEN @ + 1 ELSE @]

\* Processor.GetExecutedInstructions
GetExecutedInstructions(p) == p.executedInstructions

\* A float64 quotient a/b is kept as the exact fraction <<a, b>>.
\* Processor.GetUtilization: 0.0 (kept as <<0, 1>>) when no cycle has elapsed.
GetUtilization(p) ==
    IF p.cycleCount = 0 THEN <<0, 1>> ELSE <<p.busyCycles, p.cycleCount>>

\* ProcessorReset without p.pipeline.Flush().
ProcessorResetNoFlush(p) ==
    [p EXCEPT !.pc = 0,
              !.instructionQueue = <<>>,
              !.executedInstructions = 0,
              !.cycleCount = 0,
              !.busyCycles = 0,
              !.registersInt = [i \in DOMAIN @ |-> 0],
              !.registersFloat = [i \in DOMAIN @ |-> 0],
              !.executionUnits =
                  [u \in DOMAIN @ |-> [j \in DOMAIN @[u] |-> [@[u][j] EXCEPT !.Busy = FALSE]]]]

\* Processor.Reset, the whole call (it runs under the core's mutex).
ProcessorReset(p) ==
    [p EXCEPT !.pc = 0,
              !.instructionQueue = <<>>,
              !.executedInstructions = 0,
              !.cycleCount = 0,
              !.busyCycles = 0,
              !.pipeline = Flush(@),
              !.registersInt = [i \in DOMAIN @ |-> 0],
              !.registersFloat = [i \in DOMAIN @ |-> 0],
              !.executionUnits =
                  [u \in DOMAIN @ |-> [j \in DOMAIN @[u] |-> [@[u][j] EXCEPT !.Busy = FALSE]]]]

\* ------------------------------------------------------------------------
\* Simulator (package simulator)
\* ------------------------------------------------------------------------

\* Caller threads.  Under Spec and PairSpec every thread may call Run,
\* Shutdown and Reset; under SeqSpec and DeepSeqSpec "t1" calls Run and
\* Reset one after the other and "t2" calls Shutdown (the arrangement of
\* cmd/simulator/main.go); under RunSeqSpec "t1" calls Run and Reset and
\* nobody calls Shutdown.
Threads == {"t1", "t2"}

\* Cycle counts handed to Run under Spec and PairSpec, under SeqSpec, and
\* under RunSeqSpec and DeepSeqSpec.
CycleArgs == {-1, 0, 1}
SeqCycleArgs == {0, StopCycles}
RunCycleArgs == {-1, 1, MaxCycles}

\* Configurations the simulator is constructed with: config.DefaultConfig()
\* but for the number of cores.
ConcConfigs ==
    {[NumCores |-> ConcCores, ISA |-> "RISC-V", PipelineDepth |-> 5]}
PairConfigs ==
    {[NumCores |-> PairCores, ISA |-> "RISC-V", PipelineDepth |-> 5]}
StopConfigs ==
    {[NumCores |-> StopCores, ISA |-> "RISC-V", PipelineDepth |-> 5]}
Configs ==
    {[NumCores |-> NumCores, ISA |-> "RISC-V", PipelineDepth |-> 5]}

VARIABLES
    cfg,        \* simulator.config
    cores,      \* simulator.cores: core index -> Processor state
    clock,      \* simulator.clock
    running,    \* simulator.running (atomic.Bool)
    wg,         \* simulator.wg: the WaitGroup's counter v and number of waiters w
    stopChan,   \* simulator.stopChan: "open" or "closed"
    stats,      \* simulator.stats
    statsMutex, \* simulator.statsMutex: "free" or the thread holding it
    panicked,   \* "", or the message of the runtime panic the process died of
    pc,         \* thread -> position inside its current call
    call,       \* thread -> the current (or last) call and what it observed
    ret,        \* thread -> what the last call returned
    workers,    \* thread -> core -> the worker goroutine of that thread's Run
    ncalls,     \* number of calls the callers may still make
    hist        \* history of the simulator as a whole:
                \*   fresh       since construction, or since the last Reset
                \*               began, no Run has begun and no Shutdown has
                \*               closed stopChan, and no Run was active when
                \*               that Reset returned
                \*   dirtyReset  the last Reset met a core with an
                \*               instruction in flight
                \*   stopReset   the last Reset met a closed stopChan
                \*   who         the thread that made the latest call

\* One core driven directly by its callers (Cycle, Reset, GetUtilization and
\* register writes from several goroutines), and one pipeline driven directly
\* through its own operations.
VARIABLES
    proc,       \* the Processor
    pmutex,     \* Processor.mutex: "free" or the goroutine holding it
    gor,        \* goroutine -> its position in its call on the Processor
    chist,      \* history of the calls on the Processor
    pl,         \* the Pipeline and the history of the calls on it
    snap,       \* the slice a caller got from GetStages, <<>> before that
    np          \* one NewPipeline(depth, isa) call: arguments and result

simVars == <<cfg, cores, clock, running, wg, stopChan, stats, statsMutex, panicked,
             pc, call, ret, workers, ncalls, hist>>
procVars == <<proc, pmutex, gor, chist>>
pipeVars == <<pl, snap, np>>

vars == <<simVars, procVars, pipeVars>>

\* The simulator's own state: everything but the callers' bookkeeping.
Cores == 1..cfg.NumCores

simState == <<cfg, cores, clock, running, wg, stopChan, stats, statsMutex,
              panicked, workers>>

ZeroFloat == <<0, 1>>

\* Statistics{CoreUtilization: make([]float64, n)}
ZeroStatistics(n) ==
    [TotalCycles             |-> 0,
     InstructionsExecuted    |-> 0,
     IPC                     |-> ZeroFloat,
     CacheHitRate            |-> ZeroFloat,
     CoreUtilization         |-> [i \in 1..n |-> ZeroFloat],
     MemoryAccessLatency     |-> ZeroFloat,
     InterconnectUtilization |-> ZeroFloat]

\* New(cfg): one processor per configured core.
NewCores(c) == [i \in 1..c.NumCores |-> NewProcessor(i - 1, c)]

\* A worker goroutine: its position, its loop index i, workDone (the local
\* of the Cycle() call it is in) and late, the number of Cycle() calls it
\* has begun while stopChan was closed.
NoWorker == [pc |-> "none", i |-> 0, late |-> 0, workDone |-> FALSE]

\* A call record: op, cycles and idx (the loop index of the call's range loop)
\* are the call's own state, total and cyc are the locals totalInstructions
\* of calculateStatistics and cycles of GetUtilization; the other fields
\* record what the call met:
\*   sawRunning   the value of the running flag the call read or replaced
\*   start        Run: every core's cycle count at the compare-and-set
\*   stopAtStart  Run: stopChan was already closed at the compare-and-set
\*   stopDuring   Run, Reset: a Shutdown closed stopChan while the call was
\*                in progress
\*   lateSeen     Run: one of its workers began a Cycle() call while stopChan
\*                was closed
\*   fresh, dirtyReset, stopReset   Run: hist at the compare-and-set
\*   target       Shutdown: the threads whose Run was active when it was
\*                called and has not returned since
NoCall == [op |-> "none", cycles |-> 0, idx |-> 0, total |-> 0, cyc |-> 0,
           start |-> <<>>,
           stopAtStart |-> FALSE, stopDuring |-> FALSE, lateSeen |-> FALSE,
           fresh |-> FALSE, dirtyReset |-> FALSE, stopReset |-> FALSE,
           sawRunning |-> FALSE, target |-> {}]

InitWith(configs, calls) ==
    /\ cfg \in configs
    /\ cores = NewCores(cfg)
    /\ clock = 0
    /\ running = FALSE
    /\ wg = [v |-> 0, w |-> 0]
    /\ stopChan = "open"
    /\ stats = ZeroStatistics(cfg.NumCores)
    /\ statsMutex = "free"
    /\ panicked = ""
    /\ pc = [t \in Threads |-> "idle"]
    /\ call = [t \in Threads |-> NoCall]
    /\ ret = [t \in Threads |-> "none"]
    /\ workers = [t \in Threads |-> [k \in 1..cfg.NumCores |-> NoWorker]]
    /\ ncalls = calls
    /\ hist = [fresh |-> TRUE, dirtyReset |-> FALSE, stopReset |-> FALSE, who |-> "none"]

\* A thread may begin a call.
CanCall(t) == panicked = "" /\ pc[t] = "idle" /\ ncalls > 0

\* A Run of thread t is between its compare-and-set and its return.
RunActive(t) == call[t].op = "Run" /\ pc[t] # "idle"

\* A Reset of thread t is in progress.
ResetActive(t) == call[t].op = "Reset" /\ pc[t] # "idle"

RECURSIVE SumExecuted(_, _)
SumExecuted(cs, n) ==
    IF n = 0 THEN 0 ELSE SumExecuted(cs, n - 1) + GetExecutedInstructions(cs[n])

\* calculateStatistics(cycles), the whole call on cores that no goroutine
\* steps or resets while it runs.
CalculateStatistics(st, cs, cycles) ==
    LET total == SumExecuted(cs, Len(cs))
    IN [st EXCEPT !.TotalCycles = cycles,
                  !.CoreUtilization = [i \in 1..Len(cs) |-> GetUtilization(cs[i])],
                  !.InstructionsExecuted = total,
                  !.IPC = IF cycles > 0 THEN <<total, cycles * Len(cs)>> ELSE @]

\* ---- Run -----------------------------------------------------------------

\* RunInvalid with the argument check made after the compare-and-set and the
\* flag left set on the error path.
RunInvalidAfterCas(t, c) ==
    /\ CanCall(t)
    /\ c <= 0
    /\ running' = TRUE
    /\ call' = [call EXCEPT ![t] = [NoCall EXCEPT !.op = "Run", !.cycles = c]]
    /\ ret' = [ret EXCEPT ![t] = "ErrCycles"]
    /\ ncalls' = ncalls - 1
    /\ hist' = [hist EXCEPT !.who = t]
    /\ UNCHANGED <<cfg, cores, clock, wg, stopChan, stats, statsMutex, panicked, workers,
                   pc>>
    /\ UNCHANGED <<procVars, pipeVars>>

\* Run(c) with c <= 0: the argument check fails.
RunInvalid(t, c) ==
    /\ CanCall(t)
    /\ c <= 0
    /\ call' = [call EXCEPT ![t] = [NoCall EXCEPT !.op = "Run", !.cycles = c]]
    /\ ret' = [ret EXCEPT ![t] = "ErrCycles"]
    /\ ncalls' = ncalls - 1
    /\ hist' = [hist EXCEPT !.who = t]
    /\ UNCHANGED <<simState, pc>>
    /\ UNCHANGED <<procVars, pipeVars>>

\* Run(c), c > 0, running.CompareAndSwap(false, true) fails.
RunAlreadyRunning(t, c) ==
    /\ CanCall(t)
    /\ c > 0
    /\ running
    /\ call' = [call EXCEPT ![t] = [NoCall EXCEPT !.op = "Run", !.cycles = c,
                                                  !.sawRunning = TRUE]]
    /\ ret' = [ret EXCEPT ![t] = "ErrRunning"]
    /\ ncalls' = ncalls - 1
    /\ hist' = [hist EXCEPT !.who = t]
    /\ UNCHANGED <<simState, pc>>
    /\ UNCHANGED <<procVars, pipeVars>>

\* RunStart with a plain running.Store(true) in place of the compare-and-set.
RunStartNoCas(t, c) ==
    /\ CanCall(t)
    /\ c > 0
    /\ running' = TRUE
    /\ pc' = [pc EXCEPT ![t] = "spawn"]
    /\ call' = [call EXCEPT ![t] =
                  [NoCall EXCEPT !.op = "Run", !.cycles = c, !.idx = 1,
                                 !.start = [k \in Cores |-> cores[k].cycleCount],
                                 !.stopAtStart = (stopChan = "closed"),
                                 !.fresh = hist.fresh,
                                 !.dirtyReset = hist.dirtyReset,
                                 !.stopReset = hist.stopReset]]
    /\ ret' = [ret EXCEPT ![t] = "none"]
    /\ ncalls' = ncalls - 1
    /\ hist' = [hist EXCEPT !.fresh = FALSE, !.who = t]
    /\ UNCHANGED <<cfg, cores, clock, wg, stopChan, stats, statsMutex, panicked, workers>>
    /\ UNCHANGED <<procVars, pipeVars>>

\* Run(c), c > 0, running.CompareAndSwap(false, true) succeeds.
RunStart(t, c) ==
    /\ CanCall(t)
    /\ c > 0
    /\ ~running
    /\ running' = TRUE
    /\ pc' = [pc EXCEPT ![t] = "spawn"]
    /\ call' = [call EXCEPT ![t] =
                  [NoCall EXCEPT !.op = "Run", !.cycles = c, !.idx = 1,
                                 !.start = [k \in Cores |-> cores[k].cycleCount],
                                 !.stopAtStart = (stopChan = "closed"),
                                 !.fresh = hist.fresh,
                                 !.dirtyReset = hist.dirtyReset,
                                 !.stopReset = hist.stopReset]]
    /\ ret' = [ret EXCEPT ![t] = "none"]
    /\ ncalls' = ncalls - 1
    /\ hist' = [hist EXCEPT !.fresh = FALSE, !.who = t]
    /\ UNCHANGED <<cfg, cores, clock, wg, stopChan, stats, statsMutex, panicked, workers>>
    /\ UNCHANGED <<procVars, pipeVars>>

\* s.wg is one sync.WaitGroup shared by every Run and Shutdown.  Its state
\* is the counter v and the number of waiters w.  Wait() returns at once
\* when v = 0; else it adds itself to w and sleeps, and when it resumes it
\* panics unless the state is 0.  Add(1) panics when it raises v from 0
\* while w > 0.  Done() lowers v; the Done() that brings v to 0 with w > 0
\* stores the state 0 and wakes the waiters.  A waiter that has been woken
\* and has not yet run is in the same position as one about to be woken, so
\* the store and the wake-ups are one step.
\*
\* The messages of the runtime panics a call can die of.
AddDuringWait == "sync: WaitGroup misuse: Add called concurrently with Wait"
ReusedBeforeWaitReturned == "sync: WaitGroup is reused before previous Wait has returned"
CloseOfClosed == "close of closed channel"

\* One iteration of "for _, proc := range s.cores": wg.Add(1) and go worker.
\* Add panics when it raises the counter from 0 while waiters are registered:
\* a Done has lowered the counter to 0 and has not yet released them.
RunSpawn(t) ==
    /\ panicked = ""
    /\ pc[t] = "spawn"
    /\ wg' = [wg EXCEPT !.v = @ + 1]
    /\ IF wg.v = 0 /\ wg.w > 0
       THEN /\ panicked' = AddDuringWait
            /\ UNCHANGED <<workers, call, pc>>
       ELSE /\ workers' = [workers EXCEPT ![t][call[t].idx] =
                            [pc |-> "select", i |-> 0, late |-> 0, workDone |-> FALSE]]
            /\ call' = [call EXCEPT ![t].idx = @ + 1]
            /\ pc' = [pc EXCEPT ![t] = IF call[t].idx = cfg.NumCores THEN "wait" ELSE "spawn"]
            /\ UNCHANGED panicked
    /\ UNCHANGED <<cfg, cores, clock, running, stopChan, stats, statsMutex,
                   ret, ncalls, hist>>
    /\ UNCHANGED <<procVars, pipeVars>>

\* The worker's select receives from the closed stopChan: it returns, the
\* deferred wg.Done() is next.
WorkerStop(t, k) ==
    /\ panicked = ""
    /\ workers[t][k].pc = "select"
    /\ stopChan = "closed"
    /\ workers' = [workers EXCEPT ![t][k].pc = "done"]
    /\ UNCHANGED <<cfg, cores, clock, running, wg, stopChan, stats, statsMutex, panicked,
                   pc, call, ret, ncalls, hist>>
    /\ UNCHANGED <<procVars, pipeVars>>

\* WorkerSelect without the stop check: the worker goes on to p.Cycle()
\* whatever the state of stopChan.
WorkerSelectNoStopCheck(t, k) ==
    /\ panicked = ""
    /\ workers[t][k].pc = "select"
    /\ workers' = [workers EXCEPT ![t][k].pc = "cycle"]
    /\ UNCHANGED <<cfg, cores, clock, running, wg, stopChan, stats, statsMutex, panicked,
                   pc, call, ret, ncalls, hist>>
    /\ UNCHANGED <<procVars, pipeVars>>

\* The worker's select takes the default branch: p.Cycle() is next.
WorkerSelect(t, k) ==
    /\ panicked = ""
    /\ workers[t][k].pc = "select"
    /\ stopChan = "open"
    /\ workers' = [workers EXCEPT ![t][k].pc = "cycle"]
    /\ UNCHANGED <<cfg, cores, clock, running, wg, stopChan, stats, statsMutex, panicked,
                   pc, call, ret, ncalls, hist>>
    /\ UNCHANGED <<procVars, pipeVars>>

\* The worker of core k steps another Processor: every worker is handed
\* the first core.
WorkerCoreShared(k) == 1

\* go func(p *core.Processor) { ... }(proc): the worker launched in the
\* iteration of core k is handed that core.
WorkerCore(k) == k

\* The positions of a worker inside p.Cycle(), p.mutex held.
InCycle == {"advance", "fetch", "retire", "busy"}

\* p.mutex of core c is held by a worker inside Cycle().  (proc.Reset() of
\* Reset takes and releases it within one step.)
CoreLocked(c) ==
    \E u \in Threads : \E j \in Cores :
        WorkerCore(j) = c /\ workers[u][j].pc \in InCycle

\* p.Cycle() begins: p.mutex.Lock(); atomic.AddInt64(&p.cycleCount, 1);
\* workDone := false
WorkerCycleLock(t, k) ==
    /\ panicked = ""
    /\ workers[t][k].pc = "cycle"
    /\ ~CoreLocked(WorkerCore(k))
    /\ cores' = [cores EXCEPT ![WorkerCore(k)].cycleCount = @ + 1]
    /\ workers' = [workers EXCEPT ![t][k] =
                      [@ EXCEPT !.pc = "advance", !.workDone = FALSE,
                                !.late = IF stopChan = "closed" THEN @ + 1 ELSE @]]
    /\ call' = [call EXCEPT ![t].lateSeen = @ \/ stopChan = "closed"]
    /\ UNCHANGED <<cfg, clock, running, wg, stopChan, stats, statsMutex, panicked,
                   pc, ret, ncalls, hist>>
    /\ UNCHANGED <<procVars, pipeVars>>

\* if p.pipeline.AdvanceStages() { workDone = true }
WorkerCycleAdvance(t, k) ==
    /\ panicked = ""
    /\ workers[t][k].pc = "advance"
    /\ LET adv == AdvanceStages(cores[WorkerCore(k)].pipeline)
       IN /\ cores' = [cores EXCEPT ![WorkerCore(k)].pipeline = adv.Stages]
          /\ workers' = [workers EXCEPT ![t][k] =
                            [@ EXCEPT !.pc = "fetch", !.workDone = @ \/ adv.workDone]]
    /\ UNCHANGED <<cfg, clock, running, wg, stopChan, stats, statsMutex, panicked,
                   pc, call, ret, ncalls, hist>>
    /\ UNCHANGED <<procVars, pipeVars>>

\* The fetch of a new instruction on every FetchInterval-th cycle.
WorkerCycleFetch(t, k) ==
    /\ panicked = ""
    /\ workers[t][k].pc = "fetch"
    /\ LET p == cores[WorkerCore(k)]
       IN IF ~IsFull(p.pipeline) /\ p.cycleCount % FetchInterval = 0
          THEN LET ins == InsertInstruction(p.pipeline, FetchNextInstruction(p))
               IN /\ cores' = [cores EXCEPT ![WorkerCore(k)] =
                                 [@ EXCEPT !.pc = @ + InstrBytes, !.pipeline = ins.Stages]]
                  /\ workers' = [workers EXCEPT ![t][k] =
                                   [@ EXCEPT !.pc = "retire", !.workDone = @ \/ ins.ok]]
          ELSE /\ cores' = cores
               /\ workers' = [workers EXCEPT ![t][k].pc = "retire"]
    /\ UNCHANGED <<cfg, clock, running, wg, stopChan, stats, statsMutex, panicked,
                   pc, call, ret, ncalls, hist>>
    /\ UNCHANGED <<procVars, pipeVars>>

\* stages := p.pipeline.GetStages(); the retirement heuristic:
\* atomic.AddInt64(&p.executedInstructions, 1)
WorkerCycleRetire(t, k) ==
    /\ panicked = ""
    /\ workers[t][k].pc = "retire"
    /\ LET p      == cores[WorkerCore(k)]
           stages == p.pipeline
       IN cores' = IF Len(stages) > 0 /\ ~stages[Len(stages)].Busy
                      /\ p.cycleCount % FetchInterval = 0
                   THEN [cores EXCEPT ![WorkerCore(k)].executedInstructions = @ + 1]
                   ELSE cores
    /\ workers' = [workers EXCEPT ![t][k].pc = "busy"]
    /\ UNCHANGED <<cfg, clock, running, wg, stopChan, stats, statsMutex, panicked,
                   pc, call, ret, ncalls, hist>>
    /\ UNCHANGED <<procVars, pipeVars>>

\* if workDone { atomic.AddInt64(&p.busyCycles, 1) }; the deferred Unlock;
\* i++ and the loop test, which reads nothing shared: after the last
\* iteration (i = cycles) the worker returns, the deferred wg.Done() is next.
WorkerCycleBusy(t, k) ==
    /\ panicked = ""
    /\ workers[t][k].pc = "busy"
    /\ cores' = IF workers[t][k].workDone
                THEN [cores EXCEPT ![WorkerCore(k)].busyCycles = @ + 1]
                ELSE cores
    /\ workers' = [workers EXCEPT ![t][k] =
                      IF @.i + 1 < call[t].cycles
                      THEN [@ EXCEPT !.pc = "select", !.i = @ + 1, !.workDone = FALSE]
                      ELSE [@ EXCEPT !.pc = "done", !.workDone = FALSE]]
    /\ UNCHANGED <<cfg, clock, running, wg, stopChan, stats, statsMutex, panicked,
                   pc, call, ret, ncalls, hist>>
    /\ UNCHANGED <<procVars, pipeVars>>

\* defer s.wg.Done(), first half: the counter is lowered.  When it reaches 0
\* with waiters registered, the worker has still to release them.
WorkerDone(t, k) ==
    /\ panicked = ""
    /\ workers[t][k].pc = "done"
    /\ wg' = [wg EXCEPT !.v = @ - 1]
    /\ workers' = [workers EXCEPT ![t][k] =
                      IF wg.v = 1 /\ wg.w > 0 THEN [@ EXCEPT !.pc = "release"] ELSE NoWorker]
    /\ UNCHANGED <<cfg, cores, clock, running, stopChan, stats, statsMutex, panicked,
                   pc, call, ret, ncalls, hist>>
    /\ UNCHANGED <<procVars, pipeVars>>

\* defer s.wg.Done(), second half: the state is reset to 0 and every waiter
\* is released; a released waiter has yet to resume inside Wait().
WorkerRelease(t, k) ==
    /\ panicked = ""
    /\ workers[t][k].pc = "release"
    /\ wg' = [v |-> 0, w |-> 0]
    /\ workers' = [workers EXCEPT ![t][k] = NoWorker]
    /\ pc' = [u \in Threads |->
                IF pc[u] = "asleep" THEN "woken"
                ELSE IF pc[u] = "sdasleep" THEN "sdwoken"
                ELSE pc[u]]
    /\ UNCHANGED <<cfg, cores, clock, running, stopChan, stats, statsMutex, panicked,
                   call, ret, ncalls, hist>>
    /\ UNCHANGED <<procVars, pipeVars>>

\* RunWait without looking at the counter: Run goes on to clear the flag
\* while workers may run.
RunWaitSkipped(t) ==
    /\ panicked = ""
    /\ pc[t] = "wait"
    /\ pc' = [pc EXCEPT ![t] = "store"]
    /\ UNCHANGED <<cfg, cores, clock, running, wg, stopChan, stats, statsMutex, panicked,
                   workers, call, ret, ncalls, hist>>
    /\ UNCHANGED <<procVars, pipeVars>>

\* s.wg.Wait() finds the counter at 0 and returns at once.
RunWait(t) ==
    /\ panicked = ""
    /\ pc[t] = "wait"
    /\ wg.v = 0
    /\ pc' = [pc EXCEPT ![t] = "store"]
    /\ UNCHANGED <<cfg, cores, clock, running, wg, stopChan, stats, statsMutex, panicked,
                   workers, call, ret, ncalls, hist>>
    /\ UNCHANGED <<procVars, pipeVars>>

\* s.wg.Wait() finds a positive counter: it registers as a waiter and sleeps.
RunSleep(t) ==
    /\ panicked = ""
    /\ pc[t] = "wait"
    /\ wg.v > 0
    /\ wg' = [wg EXCEPT !.w = @ + 1]
    /\ pc' = [pc EXCEPT ![t] = "asleep"]
    /\ UNCHANGED <<cfg, cores, clock, running, stopChan, stats, statsMutex, panicked, workers,
                   call, ret, ncalls, hist>>
    /\ UNCHANGED <<procVars, pipeVars>>

\* The released waiter resumes inside s.wg.Wait(): it panics when the
\* WaitGroup's state is no longer 0, else Wait returns.
RunWake(t) ==
    /\ panicked = ""
    /\ pc[t] = "woken"
    /\ IF wg = [v |-> 0, w |-> 0]
       THEN /\ pc' = [pc EXCEPT ![t] = "store"]
            /\ UNCHANGED panicked
       ELSE /\ panicked' = ReusedBeforeWaitReturned
            /\ UNCHANGED pc
    /\ UNCHANGED <<cfg, cores, clock, running, wg, stopChan, stats, statsMutex, workers,
                   call, ret, ncalls, hist>>
    /\ UNCHANGED <<procVars, pipeVars>>

\* s.running.Store(false) after s.wg.Wait() has returned.
RunStore(t) ==
    /\ panicked = ""
    /\ pc[t] = "store"
    /\ running' = FALSE
    /\ pc' = [pc EXCEPT ![t] = "calc"]
    /\ UNCHANGED <<cfg, cores, clock, wg, stopChan, stats, statsMutex, panicked, workers,
                   call, ret, ncalls, hist>>
    /\ UNCHANGED <<procVars, pipeVars>>

\* calculateStatistics with TotalCycles taken from the cycles the first core
\* has counted.
RunCalcLockCountsExecuted(t) ==
    /\ panicked = ""
    /\ pc[t] = "calc"
    /\ statsMutex = "free"
    /\ statsMutex' = t
    /\ stats' = [stats EXCEPT !.TotalCycles = cores[1].cycleCount]
    /\ call' = [call EXCEPT ![t].idx = 1, ![t].total = 0, ![t].cyc = 0]
    /\ pc' = [pc EXCEPT ![t] = "ldexec"]
    /\ UNCHANGED <<cfg, cores, clock, running, wg, stopChan, panicked, workers,
                   ret, ncalls, hist>>
    /\ UNCHANGED <<procVars, pipeVars>>

\* s.calculateStatistics(cycles) begins: s.statsMutex.Lock();
\* s.stats.TotalCycles = cycles; totalInstructions := 0
RunCalcLock(t) ==
    /\ panicked = ""
    /\ pc[t] = "calc"
    /\ statsMutex = "free"
    /\ statsMutex' = t
    /\ stats' = [stats EXCEPT !.TotalCycles = call[t].cycles]
    /\ call' = [call EXCEPT ![t].idx = 1, ![t].total = 0, ![t].cyc = 0]
    /\ pc' = [pc EXCEPT ![t] = "ldexec"]
    /\ UNCHANGED <<cfg, cores, clock, running, wg, stopChan, panicked, workers,
                   ret, ncalls, hist>>
    /\ UNCHANGED <<procVars, pipeVars>>

\* instructions := proc.GetExecutedInstructions(), one atomic load;
\* totalInstructions += instructions
RunCalcExecuted(t) ==
    /\ panicked = ""
    /\ pc[t] = "ldexec"
    /\ call' = [call EXCEPT ![t].total = @ + GetExecutedInstructions(cores[call[t].idx])]
    /\ pc' = [pc EXCEPT ![t] = "ldcycles"]
    /\ UNCHANGED <<cfg, cores, clock, running, wg, stopChan, stats, statsMutex, panicked,
                   workers, ret, ncalls, hist>>
    /\ UNCHANGED <<procVars, pipeVars>>

\* proc.GetUtilization() begins: cycles := atomic.LoadInt64(&p.cycleCount);
\* when it is 0, 0.0 is returned and stored in s.stats.CoreUtilization[i].
RunCalcCycles(t) ==
    /\ panicked = ""
    /\ pc[t] = "ldcycles"
    /\ LET i == call[t].idx
           c == cores[i].cycleCount
       IN IF c = 0
          THEN /\ stats' = [stats EXCEPT !.CoreUtilization[i] = ZeroFloat]
               /\ call' = [call EXCEPT ![t].idx = @ + 1]
               /\ pc' = [pc EXCEPT ![t] = IF i = cfg.NumCores THEN "calcend" ELSE "ldexec"]
          ELSE /\ call' = [call EXCEPT ![t].cyc = c]
               /\ pc' = [pc EXCEPT ![t] = "ldbusy"]
               /\ UNCHANGED stats
    /\ UNCHANGED <<cfg, cores, clock, running, wg, stopChan, statsMutex, panicked,
                   workers, ret, ncalls, hist>>
    /\ UNCHANGED <<procVars, pipeVars>>

\* busyCycles := atomic.LoadInt64(&p.busyCycles); the quotient is returned
\* and stored in s.stats.CoreUtilization[i].
RunCalcBusy(t) ==
    /\ panicked = ""
    /\ pc[t] = "ldbusy"
    /\ LET i == call[t].idx
       IN /\ stats' = [stats EXCEPT
                         !.CoreUtilization[i] = <<cores[i].busyCycles, call[t].cyc>>]
          /\ call' = [call EXCEPT ![t].idx = @ + 1, ![t].cyc = 0]
          /\ pc' = [pc EXCEPT ![t] = IF i = cfg.NumCores THEN "calcend" ELSE "ldexec"]
    /\ UNCHANGED <<cfg, cores, clock, running, wg, stopChan, statsMutex, panicked,
                   workers, ret, ncalls, hist>>
    /\ UNCHANGED <<procVars, pipeVars>>

\* calculateStatistics with IPC taken as total instructions per cycle, the
\* number of cores left out of the divisor.
RunCalcEndAggregateIPC(t) ==
    /\ panicked = ""
    /\ pc[t] = "calcend"
    /\ stats' = [stats EXCEPT
                   !.InstructionsExecuted = call[t].total,
                   !.IPC = IF call[t].cycles > 0
                           THEN <<call[t].total, call[t].cycles>>
                           ELSE @]
    /\ statsMutex' = "free"
    /\ pc' = [pc EXCEPT ![t] = "idle"]
    /\ ret' = [ret EXCEPT ![t] = "ok"]
    /\ call' = [u \in Threads |-> [call[u] EXCEPT !.target = @ \ {t}]]
    /\ UNCHANGED <<cfg, cores, clock, running, wg, stopChan, panicked, workers,
                   ncalls, hist>>
    /\ UNCHANGED <<procVars, pipeVars>>

\* calculateStatistics with IPC taken over the cycles the first core has
\* counted since construction or Reset.
RunCalcEndAccumulatedCycles(t) ==
    /\ panicked = ""
    /\ pc[t] = "calcend"
    /\ stats' = [stats EXCEPT
                   !.InstructionsExecuted = call[t].total,
                   !.IPC = IF call[t].cycles > 0
                           THEN <<call[t].total, cores[1].cycleCount * Len(cores)>>
                           ELSE @]
    /\ statsMutex' = "free"
    /\ pc' = [pc EXCEPT ![t] = "idle"]
    /\ ret' = [ret EXCEPT ![t] = "ok"]
    /\ call' = [u \in Threads |-> [call[u] EXCEPT !.target = @ \ {t}]]
    /\ UNCHANGED <<cfg, cores, clock, running, wg, stopChan, panicked, workers,
                   ncalls, hist>>
    /\ UNCHANGED <<procVars, pipeVars>>

\* s.stats.InstructionsExecuted = totalInstructions; IPC when cycles > 0;
\* the deferred s.statsMutex.Unlock(); the summary is printed, Run returns nil.
RunCalcEnd(t) ==
    /\ panicked = ""
    /\ pc[t] = "calcend"
    /\ stats' = [stats EXCEPT
                   !.InstructionsExecuted = call[t].total,
                   !.IPC = IF call[t].cycles > 0
                           THEN <<call[t].total, call[t].cycles * Len(cores)>>
                           ELSE @]
    /\ statsMutex' = "free"
    /\ pc' = [pc EXCEPT ![t] = "idle"]
    /\ ret' = [ret EXCEPT ![t] = "ok"]
    /\ call' = [u \in Threads |-> [call[u] EXCEPT !.target = @ \ {t}]]
    /\ UNCHANGED <<cfg, cores, clock, running, wg, stopChan, panicked, workers,
                   ncalls, hist>>
    /\ UNCHANGED <<procVars, pipeVars>>

\* ---- Shutdown ------------------------------------------------------------

\* Shutdown() that closes stopChan although s.running.Load() is false.
ShutdownIdleCloses(t) ==
    /\ CanCall(t)
    /\ ~running
    /\ call' = [call EXCEPT ![t] = [NoCall EXCEPT !.op = "Shutdown"]]
    /\ ret' = [ret EXCEPT ![t] = "ok"]
    /\ ncalls' = ncalls - 1
    /\ stopChan' = "closed"
    /\ hist' = [hist EXCEPT !.who = t, !.fresh = FALSE]
    /\ UNCHANGED <<cfg, cores, clock, running, wg, stats, statsMutex, panicked, workers, pc>>
    /\ UNCHANGED <<procVars, pipeVars>>

\* Shutdown(): s.running.Load() is false, return.
ShutdownIdle(t) ==
    /\ CanCall(t)
    /\ ~running
    /\ call' = [call EXCEPT ![t] = [NoCall EXCEPT !.op = "Shutdown"]]
    /\ ret' = [ret EXCEPT ![t] = "ok"]
    /\ ncalls' = ncalls - 1
    /\ hist' = [hist EXCEPT !.who = t]
    /\ UNCHANGED <<simState, pc>>
    /\ UNCHANGED <<procVars, pipeVars>>

\* Shutdown(): s.running.Load() is true.
ShutdownStart(t) ==
    /\ CanCall(t)
    /\ running
    /\ pc' = [pc EXCEPT ![t] = "close"]
    /\ call' = [call EXCEPT ![t] = [NoCall EXCEPT !.op = "Shutdown", !.sawRunning = TRUE,
                               !.target = {u \in Threads : RunActive(u)}]]
    /\ ret' = [ret EXCEPT ![t] = "none"]
    /\ ncalls' = ncalls - 1
    /\ hist' = [hist EXCEPT !.who = t]
    /\ UNCHANGED simState
    /\ UNCHANGED <<procVars, pipeVars>>

\* close(s.stopChan): closing a closed channel panics.
ShutdownClose(t) ==
    /\ panicked = ""
    /\ pc[t] = "close"
    /\ IF stopChan = "closed"
       THEN /\ panicked' = CloseOfClosed
            /\ UNCHANGED <<stopChan, pc, call, hist>>
       ELSE /\ stopChan' = "closed"
            /\ pc' = [pc EXCEPT ![t] = "sdwait"]
            /\ call' = [u \in Threads |->
                          IF RunActive(u) \/ ResetActive(u)
                          THEN [call[u] EXCEPT !.stopDuring = TRUE]
                          ELSE call[u]]
            /\ hist' = [hist EXCEPT !.fresh = FALSE]
            /\ UNCHANGED panicked
    /\ UNCHANGED <<cfg, cores, clock, running, wg, stats, statsMutex, workers, ret, ncalls>>
    /\ UNCHANGED <<procVars, pipeVars>>

\* s.wg.Wait() finds the counter at 0 and returns at once.
ShutdownWait(t) ==
    /\ panicked = ""
    /\ pc[t] = "sdwait"
    /\ wg.v = 0
    /\ pc' = [pc EXCEPT ![t] = "sdstore"]
    /\ UNCHANGED <<cfg, cores, clock, running, wg, stopChan, stats, statsMutex, panicked,
                   workers, call, ret, ncalls, hist>>
    /\ UNCHANGED <<procVars, pipeVars>>

\* s.wg.Wait() finds a positive counter: it registers as a waiter and sleeps.
ShutdownSleep(t) ==
    /\ panicked = ""
    /\ pc[t] = "sdwait"
    /\ wg.v > 0
    /\ wg' = [wg EXCEPT !.w = @ + 1]
    /\ pc' = [pc EXCEPT ![t] = "sdasleep"]
    /\ UNCHANGED <<cfg, cores, clock, running, stopChan, stats, statsMutex, panicked, workers,
                   call, ret, ncalls, hist>>
    /\ UNCHANGED <<procVars, pipeVars>>

\* The released waiter resumes inside s.wg.Wait(): it panics when the
\* WaitGroup's state is no longer 0, else Wait returns.
ShutdownWake(t) ==
    /\ panicked = ""
    /\ pc[t] = "sdwoken"
    /\ IF wg = [v |-> 0, w |-> 0]
       THEN /\ pc' = [pc EXCEPT ![t] = "sdstore"]
            /\ UNCHANGED panicked
       ELSE /\ panicked' = ReusedBeforeWaitReturned
            /\ UNCHANGED pc
    /\ UNCHANGED <<cfg, cores, clock, running, wg, stopChan, stats, statsMutex, workers,
                   call, ret, ncalls, hist>>
    /\ UNCHANGED <<procVars, pipeVars>>

\* s.running.Store(false) after s.wg.Wait() has returned; Shutdown returns.
ShutdownStore(t) ==
    /\ panicked = ""
    /\ pc[t] = "sdstore"
    /\ running' = FALSE
    /\ pc' = [pc EXCEPT ![t] = "idle"]
    /\ ret' = [ret EXCEPT ![t] = "ok"]
    /\ UNCHANGED <<cfg, cores, clock, wg, stopChan, stats, statsMutex, panicked, workers,
                   call, ncalls, hist>>
    /\ UNCHANGED <<procVars, pipeVars>>

\* ---- Reset ---------------------------------------------------------------

\* Reset(): statsMutex.Lock(), s.clock = 0, s.running.Store(false).
ResetStart(t) ==
    /\ CanCall(t)
    /\ statsMutex = "free"
    /\ statsMutex' = t
    /\ clock' = 0
    /\ running' = FALSE
    /\ pc' = [pc EXCEPT ![t] = "rschan"]
    /\ call' = [call EXCEPT ![t] = [NoCall EXCEPT !.op = "Reset", !.sawRunning = running]]
    /\ ret' = [ret EXCEPT ![t] = "none"]
    /\ ncalls' = ncalls - 1
    /\ hist' = [hist EXCEPT
                  !.who = t,
                  !.fresh = FALSE,
                  !.dirtyReset = \E k \in Cores :
                                    cores[k].pc > 0 /\ ~IsEmpty(cores[k].pipeline),
                  !.stopReset = (stopChan = "closed")]
    /\ UNCHANGED <<cfg, cores, wg, stopChan, stats, panicked, workers>>
    /\ UNCHANGED <<procVars, pipeVars>>

\* ResetChan without s.stopChan = make(chan struct{}).
ResetChanKeepsChannel(t) ==
    /\ panicked = ""
    /\ pc[t] = "rschan"
    /\ stats' = ZeroStatistics(Len(stats.CoreUtilization))
    /\ pc' = [pc EXCEPT ![t] = "rscores"]
    /\ call' = [call EXCEPT ![t].idx = 1]
    /\ UNCHANGED <<cfg, cores, clock, running, wg, stopChan, statsMutex, panicked, workers,
                   ret, ncalls, hist>>
    /\ UNCHANGED <<procVars, pipeVars>>

\* s.stopChan = make(chan struct{}) and the statistics are zeroed.
ResetChan(t) ==
    /\ panicked = ""
    /\ pc[t] = "rschan"
    /\ stopChan' = "open"
    /\ stats' = ZeroStatistics(Len(stats.CoreUtilization))
    /\ pc' = [pc EXCEPT ![t] = "rscores"]
    /\ call' = [call EXCEPT ![t].idx = 1]
    /\ UNCHANGED <<cfg, cores, clock, running, wg, statsMutex, panicked, workers,
                   ret, ncalls, hist>>
    /\ UNCHANGED <<procVars, pipeVars>>

\* One iteration of "for _, proc := range s.cores { proc.Reset() }"; after
\* the last one statsMutex is released and Reset returns.  proc.Reset()
\* runs under p.mutex, which a worker inside Cycle() holds; the counters it
\* stores are read by calculateStatistics alone, which statsMutex keeps out
\* until Reset has returned.
ResetCore(t) ==
    /\ panicked = ""
    /\ pc[t] = "rscores"
    /\ ~CoreLocked(call[t].idx)
    /\ cores' = [cores EXCEPT ![call[t].idx] = ProcessorReset(@)]
    /\ call' = [call EXCEPT ![t].idx = @ + 1]
    /\ IF call[t].idx = cfg.NumCores
       THEN /\ pc' = [pc EXCEPT ![t] = "idle"]
            /\ ret' = [ret EXCEPT ![t] = "ok"]
            /\ statsMutex' = "free"
            /\ hist' = [hist EXCEPT !.fresh = /\ ~call[t].stopDuring
                                              /\ \A u \in Threads \ {t} : ~RunActive(u)]
       ELSE UNCHANGED <<pc, ret, statsMutex, hist>>
    /\ UNCHANGED <<cfg, clock, running, wg, stopChan, stats, panicked, workers, ncalls>>
    /\ UNCHANGED <<procVars, pipeVars>>

\* ------------------------------------------------------------------------
\* One Processor called from several goroutines
\* ------------------------------------------------------------------------

\* The goroutines that call Cycle, Reset and GetUtilization on the Processor
\* (the workers of Run, the caller of Reset, calculateStatistics).
Goroutines == {"g1", "g2"}

\* The configurations the Processor is built with.
ProcConfigs ==
    {[NumCores |-> 1, ISA |-> "RISC-V", PipelineDepth |-> 5],
     [NumCores |-> 1, ISA |-> "x86", PipelineDepth |-> 6]}

\* A goroutine outside any call.  op is its current or last call, workDone
\* and cycles are the locals of Cycle and of GetUtilization, ret is what
\* GetUtilization returned, window is the set of <<busyCycles, cycleCount>>
\* values the Processor has held since the goroutine's GetUtilization began.
NoGoroutine ==
    [pc |-> "idle", op |-> "none", workDone |-> FALSE, cycles |-> 0,
     ret |-> <<0, 1>>, window |-> {}]

\* The counters GetUtilization reads, as the Processor holds them.
Counters(p) == <<p.busyCycles, p.cycleCount>>

\* Every goroutine inside GetUtilization sees the Processor pass through p.
Observe(g, p) ==
    [h \in Goroutines |->
        IF h # g /\ gor[h].op = "GetUtilization" /\ gor[h].pc # "idle"
        THEN [gor[h] EXCEPT !.window = @ \cup {Counters(p)}]
        ELSE gor[h]]

\* The simulator is constructed and never called; the pipeline is not used.
PipeIdle == pl = <<>> /\ snap = <<>> /\ np = <<>>

ProcIdle ==
    /\ proc = <<>>
    /\ pmutex = "free"
    /\ gor = <<>>
    /\ chist = <<>>

\* chist: shadow is the Processor as the completed calls, applied one at a
\* time in the order of their unlocks, leave it; k counts the Cycle calls
\* completed since the last Reset (or construction), resets the Resets
\* completed, written tells that a register was written since; cyclesLeft,
\* resetsLeft, readsLeft, writesLeft and snapLeft are the calls still to be
\* made.  Of the latest Cycle: pre is the Processor when it took the lock,
\* adv the stages AdvanceStages left, fetched tells that it called
\* fetchNextInstruction and inserted that InsertInstruction returned true.
\* Since construction or the last Reset: synth counts the instructions
\* fetchNextInstruction made, accepted those InsertInstruction took,
\* retired those that left the final stage; touched tells that an
\* instruction was written through the slice GetPipelineState returned.
ProcInitWith(cycles, resets, reads, writes, snaps) ==
    /\ proc = NewProcessor(0, cfg)
    /\ pmutex = "free"
    /\ gor = [g \in Goroutines |-> NoGoroutine]
    /\ chist = [shadow |-> NewProcessor(0, cfg), k |-> 0, resets |-> 0,
                written |-> FALSE, cyclesLeft |-> cycles,
                resetsLeft |-> resets, readsLeft |-> reads,
                writesLeft |-> writes, snapLeft |-> snaps,
                pre |-> NewProcessor(0, cfg),
                adv |-> NewProcessor(0, cfg).pipeline,
                fetched |-> FALSE, inserted |-> FALSE,
                synth |-> 0, accepted |-> 0, retired |-> 0, touched |-> FALSE]

ProcInit ==
    ProcInitWith(ProcMaxCycles, ProcMaxResets, ProcMaxReads, ProcMaxWrites, 0)

\* A goroutine calls Cycle() and reaches p.mutex.Lock().
ProcCycleCall(g) ==
    /\ gor[g].pc = "idle"
    /\ chist.cyclesLeft > 0
    /\ gor' = [gor EXCEPT ![g] = [NoGoroutine EXCEPT !.op = "Cycle", !.pc = "lock"]]
    /\ chist' = [chist EXCEPT !.cyclesLeft = @ - 1]
    /\ UNCHANGED <<proc, pmutex>>
    /\ UNCHANGED <<simVars, pipeVars>>

\* Cycle() that does not take the mutex.
ProcCycleLockNoMutex(g) ==
    /\ gor[g].op = "Cycle" /\ gor[g].pc = "lock"
    /\ pmutex' = g
    /\ proc' = [proc EXCEPT !.cycleCount = @ + 1]
    /\ gor' = [Observe(g, proc') EXCEPT ![g].pc = "advance", ![g].workDone = FALSE]
    /\ chist' = [chist EXCEPT !.pre = proc]
    /\ UNCHANGED <<simVars, pipeVars>>

\* p.mutex.Lock(); atomic.AddInt64(&p.cycleCount, 1); workDone := false
ProcCycleLock(g) ==
    /\ gor[g].op = "Cycle" /\ gor[g].pc = "lock"
    /\ pmutex = "free"
    /\ pmutex' = g
    /\ proc' = [proc EXCEPT !.cycleCount = @ + 1]
    /\ gor' = [Observe(g, proc') EXCEPT ![g].pc = "advance", ![g].workDone = FALSE]
    /\ chist' = [chist EXCEPT !.pre = proc]
    /\ UNCHANGED <<simVars, pipeVars>>

\* The advance step that drops the value AdvanceStages returned.
ProcCycleAdvanceDropsWork(g) ==
    /\ gor[g].op = "Cycle" /\ gor[g].pc = "advance"
    /\ LET adv  == AdvanceStages(proc.pipeline)
           last == Occupant(proc.pipeline, Len(proc.pipeline))
       IN /\ proc' = [proc EXCEPT !.pipeline = adv.Stages]
          /\ gor' = [gor EXCEPT ![g].pc = "fetch"]
          /\ chist' = [chist EXCEPT
                         !.adv = adv.Stages,
                         !.retired = IF last # -1 /\ Position(adv.Stages, last) = 0
                                     THEN @ + 1 ELSE @]
    /\ UNCHANGED pmutex
    /\ UNCHANGED <<simVars, pipeVars>>

\* if p.pipeline.AdvanceStages() { workDone = true }
ProcCycleAdvance(g) ==
    /\ gor[g].op = "Cycle" /\ gor[g].pc = "advance"
    /\ LET adv  == AdvanceStages(proc.pipeline)
           last == Occupant(proc.pipeline, Len(proc.pipeline))
       IN /\ proc' = [proc EXCEPT !.pipeline = adv.Stages]
          /\ gor' = [gor EXCEPT ![g].pc = "fetch",
                                ![g].workDone = gor[g].workDone \/ adv.workDone]
          /\ chist' = [chist EXCEPT
                         !.adv = adv.Stages,
                         !.retired = IF last # -1 /\ Position(adv.Stages, last) = 0
                                     THEN @ + 1 ELSE @]
    /\ UNCHANGED pmutex
    /\ UNCHANGED <<simVars, pipeVars>>

\* The fetch without the test "p.cycleCount%5 == 0".
ProcCycleFetchEveryCycle(g) ==
    /\ gor[g].op = "Cycle" /\ gor[g].pc = "fetch"
    /\ IF ~IsFull(proc.pipeline)
       THEN LET ins == InsertInstruction(proc.pipeline, FetchNextInstruction(proc))
            IN /\ proc' = [proc EXCEPT !.pc = @ + InstrBytes, !.pipeline = ins.Stages]
               /\ gor' = [gor EXCEPT ![g].pc = "retire",
                                     ![g].workDone = gor[g].workDone \/ ins.ok]
               /\ chist' = [chist EXCEPT !.fetched = TRUE, !.inserted = ins.ok,
                                         !.synth = @ + 1,
                                         !.accepted = IF ins.ok THEN @ + 1 ELSE @]
       ELSE /\ proc' = proc
            /\ gor' = [gor EXCEPT ![g].pc = "retire"]
            /\ chist' = [chist EXCEPT !.fetched = FALSE, !.inserted = FALSE]
    /\ UNCHANGED pmutex
    /\ UNCHANGED <<simVars, pipeVars>>

\* The fetch without the test "!p.pipeline.IsFull()".
ProcCycleFetchIgnoresFull(g) ==
    /\ gor[g].op = "Cycle" /\ gor[g].pc = "fetch"
    /\ IF proc.cycleCount % FetchInterval = 0
       THEN LET ins == InsertInstruction(proc.pipeline, FetchNextInstruction(proc))
            IN /\ proc' = [proc EXCEPT !.pc = @ + InstrBytes, !.pipeline = ins.Stages]
               /\ gor' = [gor EXCEPT ![g].pc = "retire",
                                     ![g].workDone = gor[g].workDone \/ ins.ok]
               /\ chist' = [chist EXCEPT !.fetched = TRUE, !.inserted = ins.ok,
                                         !.synth = @ + 1,
                                         !.accepted = IF ins.ok THEN @ + 1 ELSE @]
       ELSE /\ proc' = proc
            /\ gor' = [gor EXCEPT ![g].pc = "retire"]
            /\ chist' = [chist EXCEPT !.fetched = FALSE, !.inserted = FALSE]
    /\ UNCHANGED pmutex
    /\ UNCHANGED <<simVars, pipeVars>>

\* The fetch of a new instruction on every FetchInterval-th cycle.
ProcCycleFetch(g) ==
    /\ gor[g].op = "Cycle" /\ gor[g].pc = "fetch"
    /\ IF ~IsFull(proc.pipeline) /\ proc.cycleCount % FetchInterval = 0
       THEN LET ins == InsertInstruction(proc.pipeline, FetchNextInstruction(proc))
            IN /\ proc' = [proc EXCEPT !.pc = @ + InstrBytes, !.pipeline = ins.Stages]
               /\ gor' = [gor EXCEPT ![g].pc = "retire",
                                     ![g].workDone = gor[g].workDone \/ ins.ok]
               /\ chist' = [chist EXCEPT !.fetched = TRUE, !.inserted = ins.ok,
                                         !.synth = @ + 1,
                                         !.accepted = IF ins.ok THEN @ + 1 ELSE @]
       ELSE /\ proc' = proc
            /\ gor' = [gor EXCEPT ![g].pc = "retire"]
            /\ chist' = [chist EXCEPT !.fetched = FALSE, !.inserted = FALSE]
    /\ UNCHANGED pmutex
    /\ UNCHANGED <<simVars, pipeVars>>

\* The retirement heuristic without the test of the last stage's Busy.
ProcCycleRetireIgnoresBusy(g) ==
    /\ gor[g].op = "Cycle" /\ gor[g].pc = "retire"
    /\ LET stages == proc.pipeline
       IN proc' = IF Len(stages) > 0 /\ proc.cycleCount % FetchInterval = 0
                  THEN [proc EXCEPT !.executedInstructions = @ + 1]
                  ELSE proc
    /\ gor' = [gor EXCEPT ![g].pc = "busy"]
    /\ UNCHANGED <<pmutex, chist>>
    /\ UNCHANGED <<simVars, pipeVars>>

\* The retirement heuristic on the copy of the stages.
ProcCycleRetire(g) ==
    /\ gor[g].op = "Cycle" /\ gor[g].pc = "retire"
    /\ LET stages == proc.pipeline
       IN proc' = IF Len(stages) > 0 /\ ~stages[Len(stages)].Busy
                     /\ proc.cycleCount % FetchInterval = 0
                  THEN [proc EXCEPT !.executedInstructions = @ + 1]
                  ELSE proc
    /\ gor' = [gor EXCEPT ![g].pc = "busy"]
    /\ UNCHANGED <<pmutex, chist>>
    /\ UNCHANGED <<simVars, pipeVars>>

\* The end of Cycle() that counts every cycle as busy.
ProcCycleBusyAlways(g) ==
    /\ gor[g].op = "Cycle" /\ gor[g].pc = "busy"
    /\ proc' = [proc EXCEPT !.busyCycles = @ + 1]
    /\ pmutex' = "free"
    /\ gor' = [Observe(g, proc') EXCEPT ![g].pc = "idle"]
    /\ chist' = [chist EXCEPT !.shadow = Cycle(@), !.k = @ + 1]
    /\ UNCHANGED <<simVars, pipeVars>>

\* if workDone { atomic.AddInt64(&p.busyCycles, 1) }; the deferred Unlock.
ProcCycleBusy(g) ==
    /\ gor[g].op = "Cycle" /\ gor[g].pc = "busy"
    /\ proc' = IF gor[g].workDone THEN [proc EXCEPT !.busyCycles = @ + 1] ELSE proc
    /\ pmutex' = "free"
    /\ gor' = [Observe(g, proc') EXCEPT ![g].pc = "idle"]
    /\ chist' = [chist EXCEPT !.shadow = Cycle(@), !.k = @ + 1]
    /\ UNCHANGED <<simVars, pipeVars>>

\* A goroutine calls Reset() and reaches p.mutex.Lock().
ProcResetCall(g) ==
    /\ gor[g].pc = "idle"
    /\ chist.resetsLeft > 0
    /\ gor' = [gor EXCEPT ![g] = [NoGoroutine EXCEPT !.op = "Reset", !.pc = "lock"]]
    /\ chist' = [chist EXCEPT !.resetsLeft = @ - 1]
    /\ UNCHANGED <<proc, pmutex>>
    /\ UNCHANGED <<simVars, pipeVars>>

\* p.mutex.Lock(); p.pc = 0; p.instructionQueue = make(...)
ProcResetLock(g) ==
    /\ gor[g].op = "Reset" /\ gor[g].pc = "lock"
    /\ pmutex = "free"
    /\ pmutex' = g
    /\ proc' = [proc EXCEPT !.pc = 0, !.instructionQueue = <<>>]
    /\ gor' = [gor EXCEPT ![g].pc = "counters"]
    /\ chist' = [chist EXCEPT !.synth = 0, !.accepted = 0]
    /\ UNCHANGED <<simVars, pipeVars>>

\* The three atomic stores of 0.
ProcResetCounters(g) ==
    /\ gor[g].op = "Reset" /\ gor[g].pc = "counters"
    /\ proc' = [proc EXCEPT !.executedInstructions = 0, !.cycleCount = 0, !.busyCycles = 0]
    /\ gor' = [Observe(g, proc') EXCEPT ![g].pc = "flush"]
    /\ chist' = [chist EXCEPT !.retired = 0]
    /\ UNCHANGED pmutex
    /\ UNCHANGED <<simVars, pipeVars>>

\* Reset() that leaves the registers as they are.
ProcResetFlushKeepsRegisters(g) ==
    /\ gor[g].op = "Reset" /\ gor[g].pc = "flush"
    /\ proc' = [proc EXCEPT
                  !.pipeline = Flush(@),
                  !.executionUnits =
                      [u \in DOMAIN @ |->
                          [j \in DOMAIN @[u] |-> [@[u][j] EXCEPT !.Busy = FALSE]]]]
    /\ pmutex' = "free"
    /\ gor' = [gor EXCEPT ![g].pc = "idle"]
    /\ chist' = [chist EXCEPT !.shadow = ProcessorReset(@), !.k = 0, !.resets = @ + 1,
                              !.written = FALSE, !.touched = FALSE]
    /\ UNCHANGED <<simVars, pipeVars>>

\* p.pipeline.Flush(); the registers and the execution units; the deferred Unlock.
ProcResetFlush(g) ==
    /\ gor[g].op = "Reset" /\ gor[g].pc = "flush"
    /\ proc' = [proc EXCEPT
                  !.pipeline = Flush(@),
                  !.registersInt = [i \in DOMAIN @ |-> 0],
                  !.registersFloat = [i \in DOMAIN @ |-> 0],
                  !.executionUnits =
                      [u \in DOMAIN @ |->
                          [j \in DOMAIN @[u] |-> [@[u][j] EXCEPT !.Busy = FALSE]]]]
    /\ pmutex' = "free"
    /\ gor' = [gor EXCEPT ![g].pc = "idle"]
    /\ chist' = [chist EXCEPT !.shadow = ProcessorReset(@), !.k = 0, !.resets = @ + 1,
                              !.written = FALSE, !.touched = FALSE]
    /\ UNCHANGED <<simVars, pipeVars>>

\* GetUtilization(): cycles := atomic.LoadInt64(&p.cycleCount); 0.0 if it is 0.
GetUtilLoadCycles(g) ==
    /\ gor[g].pc = "idle"
    /\ chist.readsLeft > 0
    /\ chist' = [chist EXCEPT !.readsLeft = @ - 1]
    /\ gor' = [gor EXCEPT ![g] =
                 [NoGoroutine EXCEPT !.op = "GetUtilization",
                                     !.cycles = proc.cycleCount,
                                     !.window = {Counters(proc)},
                                     !.pc = IF proc.cycleCount = 0 THEN "idle" ELSE "loadbusy",
                                     !.ret = <<0, 1>>]]
    /\ UNCHANGED <<proc, pmutex>>
    /\ UNCHANGED <<simVars, pipeVars>>

\* busyCycles := atomic.LoadInt64(&p.busyCycles); return busyCycles / cycles
GetUtilLoadBusy(g) ==
    /\ gor[g].op = "GetUtilization" /\ gor[g].pc = "loadbusy"
    /\ gor' = [gor EXCEPT ![g].pc = "idle", ![g].ret = <<proc.busyCycles, gor[g].cycles>>]
    /\ UNCHANGED <<proc, pmutex, chist>>
    /\ UNCHANGED <<simVars, pipeVars>>

\* A register write by the Processor's owner between two calls
\* (proc.registersInt[1] = 42, proc.registersFloat[2] = ...).
RegWrite(g) ==
    /\ \A h \in Goroutines : gor[h].pc = "idle"
    /\ chist.writesLeft > 0
    /\ proc' = [proc EXCEPT !.registersInt[2] = 42, !.registersFloat[3] = 3]
    /\ chist' = [chist EXCEPT !.shadow = [@ EXCEPT !.registersInt[2] = 42,
                                                   !.registersFloat[3] = 3],
                              !.written = TRUE, !.writesLeft = @ - 1]
    /\ gor' = [gor EXCEPT ![g] = [NoGoroutine EXCEPT !.op = "RegWrite"]]
    /\ UNCHANGED pmutex
    /\ UNCHANGED <<simVars, pipeVars>>

\* ------------------------------------------------------------------------
\* One Processor called by one goroutine
\* ------------------------------------------------------------------------

\* The configurations the Processor is built with: config.DefaultConfig(),
\* the two other named topologies, and generic topologies of depth 2, 3 and
\* 6.  (NewProcessor does not return for depth 1.)
CoreConfigs ==
    {[NumCores |-> 4, ISA |-> "RISC-V", PipelineDepth |-> 5],
     [NumCores |-> 1, ISA |-> "x86", PipelineDepth |-> 6],
     [NumCores |-> 1, ISA |-> "x86", PipelineDepth |-> 12],
     [NumCores |-> 1, ISA |-> "Custom", PipelineDepth |-> 2],
     [NumCores |-> 1, ISA |-> "ARM", PipelineDepth |-> 3],
     [NumCores |-> 1, ISA |-> "ARM", PipelineDepth |-> 6]}

CoreInit == ProcInitWith(0, CoreMaxResets, 0, 0, CoreMaxWrites)

\* The goroutine calls Cycle() and reaches p.mutex.Lock().
CoreCycleCall(g) ==
    /\ gor[g].pc = "idle"
    /\ proc.cycleCount < CoreMaxCycles
    /\ gor' = [gor EXCEPT ![g] = [NoGoroutine EXCEPT !.op = "Cycle", !.pc = "lock"]]
    /\ UNCHANGED <<proc, pmutex, chist>>
    /\ UNCHANGED <<simVars, pipeVars>>

\* stages := p.GetPipelineState(); stages[0].Instruction.CyclesLeft = v,
\* between two calls, when stage 0 holds an instruction.
CoreSnapshotWrite(g, v) ==
    /\ gor[g].pc = "idle"
    /\ chist.snapLeft > 0
    /\ GetStages(proc.pipeline)[1].Instruction # <<>>
    /\ LET ptr == GetStages(proc.pipeline)[1].Instruction[1]
       IN /\ proc' = [proc EXCEPT !.pipeline = StoreCyclesLeft(@, ptr, v)]
          /\ chist' = [chist EXCEPT
                         !.shadow = [@ EXCEPT !.pipeline = StoreCyclesLeft(@, ptr, v)],
                         !.touched = TRUE, !.snapLeft = @ - 1]
    /\ gor' = [gor EXCEPT ![g] = [NoGoroutine EXCEPT !.op = "SnapshotWrite"]]
    /\ UNCHANGED pmutex
    /\ UNCHANGED <<simVars, pipeVars>>

\* ------------------------------------------------------------------------
\* One Pipeline called directly
\* ------------------------------------------------------------------------

\* The pipeline literal of TestPipelineMultiCycleStage: a 3-cycle Decode.
MultiCycleStages ==
    <<Stage("Fetch", 1), Stage("Decode", 3), Stage("Execute", 1),
      Stage("Memory", 1), Stage("Writeback", 1)>>

\* The pipelines the operations are called on.
PipeTopologies ==
    {NewPipeline(5, "RISC-V").Stages, NewPipeline(6, "x86").Stages,
     NewPipeline(3, "ARM").Stages, MultiCycleStages}

\* The values of CyclesLeft an instruction carries when it is handed to
\* InsertInstruction.
CarriedCyclesLeft == {0, 1, 7}

\* &Instruction{Address: id, ..., CyclesLeft: c}; the address identifies it.
PipeInstruction(id, c) ==
    [Address |-> id, Opcode |-> 1, Operands |-> <<1, 2, 3>>,
     Type |-> "Integer", CyclesLeft |-> c]

\* pl: Stages is the pipeline; lastOp, prev and prevAge are the last
\* operation and the stages and ages it met; age[i] is the number of
\* AdvanceStages calls the occupant of stage i has been through in that
\* stage; arg, argAfter and ok are the instruction handed to the last
\* InsertInstruction, the same instruction after the call, and the returned
\* value; retired lists the instructions that left the final stage; next is
\* the address of the next instruction; ops counts the calls still to make;
\* work is the value the last AdvanceStages returned; solo is the number of
\* AdvanceStages calls made on an instruction that was inserted into an empty
\* pipeline and has been alone since (-1 when there is none); accepted and
\* flushed count the instructions InsertInstruction took and Flush dropped.
PipeInitWith(n) ==
    /\ \E st \in PipeTopologies :
          pl = [Stages |-> st, prev |-> st,
                age |-> [i \in DOMAIN st |-> 0], prevAge |-> [i \in DOMAIN st |-> 0],
                lastOp |-> "none", arg |-> <<>>, argAfter |-> <<>>, ok |-> FALSE,
                retired |-> <<>>, next |-> 1, ops |-> n,
                work |-> FALSE, solo |-> -1, accepted |-> 0, flushed |-> 0]
    /\ snap = <<>>
    /\ np = <<>>

PipeInit == PipeInitWith(PipeMaxOps)

\* The number of occupied stages.
OccupiedStages(stages) == Cardinality({i \in DOMAIN stages : Occupant(stages, i) # -1})

\* The record after p.AdvanceStages() on the pipeline of record p.
AdvanceRecord(p) ==
    LET old  == p.Stages
        adv  == AdvanceStages(old)
        new  == adv.Stages
        last == Occupant(old, Len(old))
    IN [p EXCEPT
          !.Stages = new,
          !.prev = old,
          !.prevAge = p.age,
          !.age = [i \in DOMAIN new |->
                     IF Occupant(new, i) # -1 /\ Occupant(new, i) = Occupant(old, i)
                     THEN p.age[i] + 1 ELSE 0],
          !.lastOp = "Advance",
          !.retired = IF last # -1 /\ Position(new, last) = 0
                      THEN Append(@, last) ELSE @,
          !.work = adv.workDone,
          !.solo = IF @ >= 0 /\ ~IsEmpty(old) THEN @ + 1 ELSE -1]

\* p.AdvanceStages()
PipeAdvance ==
    /\ pl.ops > 0
    /\ pl' = [AdvanceRecord(pl) EXCEPT !.ops = @ - 1]
    /\ UNCHANGED <<snap, np>>
    /\ UNCHANGED <<simVars, procVars>>

\* p.InsertInstruction(inst) with a new instruction that carries CyclesLeft c.
PipeInsert(c) ==
    /\ pl.ops > 0
    /\ LET inst == PipeInstruction(pl.next, c)
           ins  == InsertInstruction(pl.Stages, inst)
       IN pl' = [pl EXCEPT
                   !.Stages = ins.Stages,
                   !.prev = pl.Stages,
                   !.prevAge = pl.age,
                   !.age = IF ins.ok THEN [@ EXCEPT ![1] = 0] ELSE @,
                   !.lastOp = "Insert",
                   !.arg = inst,
                   !.argAfter = ins.inst,
                   !.ok = ins.ok,
                   !.next = @ + 1,
                   !.solo = IF ins.ok THEN (IF IsEmpty(pl.Stages) THEN 0 ELSE -1) ELSE @,
                   !.accepted = IF ins.ok THEN @ + 1 ELSE @,
                   !.ops = @ - 1]
    /\ UNCHANGED <<snap, np>>
    /\ UNCHANGED <<simVars, procVars>>

\* p.Flush()
PipeFlush ==
    /\ pl.ops > 0
    /\ pl' = [pl EXCEPT
                !.Stages = Flush(pl.Stages),
                !.prev = pl.Stages,
                !.prevAge = pl.age,
                !.age = [i \in DOMAIN @ |-> 0],
                !.lastOp = "Flush",
                !.solo = -1,
                !.flushed = @ + OccupiedStages(pl.Stages),
                !.ops = @ - 1]
    /\ UNCHANGED <<snap, np>>
    /\ UNCHANGED <<simVars, procVars>>

\* p.AdvanceStages() called again and again once no other operation is left
\* to call.
DrainAdvance ==
    /\ pl.ops = 0
    /\ pl' = AdvanceRecord(pl)
    /\ UNCHANGED <<snap, np>>
    /\ UNCHANGED <<simVars, procVars>>

\* ------------------------------------------------------------------------
\* One Pipeline and a caller that keeps the slice GetStages returned
\* ------------------------------------------------------------------------

\* The pipelines of config.DefaultConfig() and of the x86 configuration.
SnapTopologies == {NewPipeline(5, "RISC-V").Stages, NewPipeline(6, "x86").Stages}

SnapInit ==
    /\ \E st \in SnapTopologies :
          pl = [Stages |-> st, prev |-> st,
                age |-> [i \in DOMAIN st |-> 0], prevAge |-> [i \in DOMAIN st |-> 0],
                lastOp |-> "none", arg |-> <<>>, argAfter |-> <<>>, ok |-> FALSE,
                retired |-> <<>>, next |-> 1, ops |-> SnapMaxOps,
                work |-> FALSE, solo |-> -1, accepted |-> 0, flushed |-> 0]
    /\ snap = <<>>
    /\ np = <<>>

\* stages := p.GetStages()  (Processor.GetPipelineState returns the same slice)
SnapGetStages ==
    /\ pl.ops > 0
    /\ snap' = GetStages(pl.Stages)
    /\ pl' = [pl EXCEPT !.prev = pl.Stages, !.prevAge = pl.age,
                        !.lastOp = "GetStages", !.ops = @ - 1]
    /\ UNCHANGED np
    /\ UNCHANGED <<simVars, procVars>>

\* stages[i].Instruction.CyclesLeft = v on the slice GetStages returned.
SnapWriteInstruction(i, v) ==
    /\ pl.ops > 0
    /\ snap # <<>>
    /\ i \in DOMAIN snap
    /\ snap[i].Instruction # <<>>
    /\ pl' = [pl EXCEPT !.Stages = StoreCyclesLeft(@, snap[i].Instruction[1], v),
                        !.prev = pl.Stages, !.prevAge = pl.age,
                        !.lastOp = "SnapWrite", !.ops = @ - 1]
    /\ UNCHANGED <<snap, np>>
    /\ UNCHANGED <<simVars, procVars>>

\* stages[i].Busy = !stages[i].Busy; stages[i].Instruction = nil;
\* stages[i].Latency = v on the slice GetStages returned.
SnapWriteStage(i, v) ==
    /\ pl.ops > 0
    /\ snap # <<>>
    /\ i \in DOMAIN snap
    /\ snap' = [snap EXCEPT ![i].Busy = ~@, ![i].Instruction = <<>>, ![i].Latency = v]
    /\ pl' = [pl EXCEPT !.prev = pl.Stages, !.prevAge = pl.age,
                        !.lastOp = "SnapWrite", !.ops = @ - 1]
    /\ UNCHANGED np
    /\ UNCHANGED <<simVars, procVars>>

\* ------------------------------------------------------------------------
\* One NewPipeline call
\* ------------------------------------------------------------------------

\* The arguments NewPipeline is called with: the ISAs validateConfig accepts,
\* and a string it does not know; negative, zero and positive depths.
CtorISAs == {"RISC-V", "MIPS", "x86", "ARM", "Custom", ""}
CtorDepths == (-1)..MaxDepth

\* np: the call NewPipeline(depth, isa) is about to be made ("call") or has
\* ended ("done") with the result res.
CtorInit ==
    /\ \E d \in CtorDepths, isa \in CtorISAs :
          np = [pc |-> "call", depth |-> d, isa |-> isa,
                res |-> [err |-> "none", Stages |-> <<>>]]
    /\ pl = <<>>
    /\ snap = <<>>

\* pipeline, err := NewPipeline(depth, isa)
CtorNewPipeline ==
    /\ np.pc = "call"
    /\ np' = [np EXCEPT !.pc = "done", !.res = NewPipeline(np.depth, np.isa)]
    /\ UNCHANGED <<pl, snap>>
    /\ UNCHANGED <<simVars, procVars>>

\* ---- Specifications ------------------------------------------------------

RunSteps(t) ==
    \/ RunSpawn(t)
    \/ \E k \in Cores : WorkerStop(t, k)
    \/ \E k \in Cores : WorkerSelect(t, k)
    \/ \E k \in Cores : WorkerCycleLock(t, k)
    \/ \E k \in Cores : WorkerCycleAdvance(t, k)
    \/ \E k \in Cores : WorkerCycleFetch(t, k)
    \/ \E k \in Cores : WorkerCycleRetire(t, k)
    \/ \E k \in Cores : WorkerCycleBusy(t, k)
    \/ \E k \in Cores : WorkerDone(t, k)
    \/ \E k \in Cores : WorkerRelease(t, k)
    \/ RunWait(t)
    \/ RunSleep(t)
    \/ RunWake(t)
    \/ RunStore(t)
    \/ RunCalcLock(t)
    \/ RunCalcExecuted(t)
    \/ RunCalcCycles(t)
    \/ RunCalcBusy(t)
    \/ RunCalcEnd(t)

ShutdownOps(t) ==
    \/ ShutdownIdle(t)
    \/ ShutdownStart(t)
    \/ ShutdownClose(t)
    \/ ShutdownWait(t)
    \/ ShutdownSleep(t)
    \/ ShutdownWake(t)
    \/ ShutdownStore(t)

ResetOps(t) ==
    \/ ResetStart(t)
    \/ ResetChan(t)
    \/ ResetCore(t)

\* Any thread calls anything at any time.
Init == InitWith(ConcConfigs, ConcCalls) /\ ProcIdle /\ PipeIdle

Next ==
    \E t \in Threads :
        \/ \E c \in CycleArgs : RunInvalid(t, c)
        \/ \E c \in CycleArgs : RunAlreadyRunning(t, c)
        \/ \E c \in CycleArgs : RunStart(t, c)
        \/ RunSteps(t)
        \/ ShutdownOps(t)
        \/ ResetOps(t)

Spec == Init /\ [][Next]_vars

\* Two calls, one of each thread or both of one: a call meets the other at
\* any point of it.
PairInit == InitWith(PairConfigs, PairCalls) /\ ProcIdle /\ PipeIdle

PairNext ==
    \E t \in Threads :
        \/ \E c \in CycleArgs : RunInvalid(t, c)
        \/ \E c \in CycleArgs : RunAlreadyRunning(t, c)
        \/ \E c \in CycleArgs : RunStart(t, c)
        \/ RunSteps(t)
        \/ ShutdownOps(t)
        \/ ResetOps(t)

PairSpec == PairInit /\ [][PairNext]_vars

\* One thread calls Run and Reset one after the other, the other calls
\* Shutdown at any time.
SeqInit == InitWith(StopConfigs, MaxCalls) /\ ProcIdle /\ PipeIdle

SeqNext ==
    \/ \E c \in SeqCycleArgs : RunInvalid("t1", c)
    \/ \E c \in SeqCycleArgs : RunStart("t1", c)
    \/ RunSteps("t1")
    \/ ResetOps("t1")
    \/ ShutdownOps("t2")

SeqSpec == SeqInit /\ [][SeqNext]_vars

\* The same callers with the long Runs of RunSeqSpec: a Shutdown may stop a
\* Run with instructions in flight, at any step of a Cycle().
DeepSeqInit == InitWith(StopConfigs, MaxCalls) /\ ProcIdle /\ PipeIdle

DeepSeqNext ==
    \/ \E c \in RunCycleArgs : RunInvalid("t1", c)
    \/ \E c \in RunCycleArgs : RunStart("t1", c)
    \/ RunSteps("t1")
    \/ ResetOps("t1")
    \/ ShutdownOps("t2")

DeepSeqSpec == DeepSeqInit /\ [][DeepSeqNext]_vars

\* One thread calls Run and Reset one after the other and nobody calls
\* Shutdown: no Run is stopped, stopChan stays open and no worker receives
\* from it.
RunSeqInit == InitWith(Configs, RunSeqCalls) /\ ProcIdle /\ PipeIdle

RunSeqNext ==
    \/ \E c \in RunCycleArgs : RunInvalid("t1", c)
    \/ \E c \in RunCycleArgs : RunStart("t1", c)
    \/ RunSpawn("t1")
    \/ \E k \in Cores : WorkerSelect("t1", k)
    \/ \E k \in Cores : WorkerCycleLock("t1", k)
    \/ \E k \in Cores : WorkerCycleAdvance("t1", k)
    \/ \E k \in Cores : WorkerCycleFetch("t1", k)
    \/ \E k \in Cores : WorkerCycleRetire("t1", k)
    \/ \E k \in Cores : WorkerCycleBusy("t1", k)
    \/ \E k \in Cores : WorkerDone("t1", k)
    \/ \E k \in Cores : WorkerRelease("t1", k)
    \/ RunWait("t1")
    \/ RunSleep("t1")
    \/ RunWake("t1")
    \/ RunStore("t1")
    \/ RunCalcLock("t1")
    \/ RunCalcExecuted("t1")
    \/ RunCalcCycles("t1")
    \/ RunCalcBusy("t1")
    \/ RunCalcEnd("t1")
    \/ ResetOps("t1")

RunSeqSpec == RunSeqInit /\ [][RunSeqNext]_vars

\* SeqSpec with the goroutines of a Run scheduled fairly: a worker, or Run
\* itself, that can take a step eventually takes one.
FairSeqInit == InitWith(Configs, MaxCalls) /\ ProcIdle /\ PipeIdle

FairSeqNext ==
    \/ \E c \in SeqCycleArgs : RunInvalid("t1", c)
    \/ \E c \in SeqCycleArgs : RunStart("t1", c)
    \/ RunSteps("t1")
    \/ ResetOps("t1")
    \/ ShutdownOps("t2")

FairSeqSpec ==
    /\ FairSeqInit
    /\ [][FairSeqNext]_vars
    /\ WF_vars(RunSpawn("t1"))
    /\ \A k \in 1..NumCores :
          WF_vars(\/ WorkerStop("t1", k) \/ WorkerSelect("t1", k)
                  \/ WorkerCycleLock("t1", k) \/ WorkerCycleAdvance("t1", k)
                  \/ WorkerCycleFetch("t1", k) \/ WorkerCycleRetire("t1", k)
                  \/ WorkerCycleBusy("t1", k)
                  \/ WorkerDone("t1", k) \/ WorkerRelease("t1", k))
    /\ WF_vars(RunWait("t1") \/ RunSleep("t1") \/ RunWake("t1") \/ RunStore("t1"))
    /\ WF_vars(\/ RunCalcLock("t1") \/ RunCalcExecuted("t1") \/ RunCalcCycles("t1")
               \/ RunCalcBusy("t1") \/ RunCalcEnd("t1"))

\* One Processor: both goroutines call Cycle() (the workers of the Runs), and
\* "g2" also calls Reset() and GetUtilization() and writes registers (the
\* simulator's caller), in any interleaving.
ProcSpecInit == InitWith(ProcConfigs, 0) /\ ProcInit /\ PipeIdle

ProcNext ==
    \/ \E g \in Goroutines : ProcCycleCall(g)
    \/ \E g \in Goroutines : ProcCycleLock(g)
    \/ \E g \in Goroutines : ProcCycleAdvance(g)
    \/ \E g \in Goroutines : ProcCycleFetch(g)
    \/ \E g \in Goroutines : ProcCycleRetire(g)
    \/ \E g \in Goroutines : ProcCycleBusy(g)
    \/ ProcResetCall("g2")
    \/ ProcResetLock("g2")
    \/ ProcResetCounters("g2")
    \/ ProcResetFlush("g2")
    \/ GetUtilLoadCycles("g2")
    \/ GetUtilLoadBusy("g2")
    \/ RegWrite("g2")

ProcSpec == ProcSpecInit /\ [][ProcNext]_vars

\* One Processor, one goroutine: Cycle() up to a cycle count of
\* CoreMaxCycles, Reset(), and a write through GetPipelineState(), one call
\* after the other.
CoreSpecInit == InitWith(CoreConfigs, 0) /\ CoreInit /\ PipeIdle

CoreNext ==
    \/ CoreCycleCall("g1")
    \/ ProcCycleLock("g1")
    \/ ProcCycleAdvance("g1")
    \/ ProcCycleFetch("g1")
    \/ ProcCycleRetire("g1")
    \/ ProcCycleBusy("g1")
    \/ ProcResetCall("g1")
    \/ ProcResetLock("g1")
    \/ ProcResetCounters("g1")
    \/ ProcResetFlush("g1")
    \/ CoreSnapshotWrite("g1", 7)

CoreSpec == CoreSpecInit /\ [][CoreNext]_vars

\* One Pipeline, its operations called in any order.
PipeSpecInit == InitWith(Configs, 0) /\ ProcIdle /\ PipeInit

PipeNext ==
    \/ PipeAdvance
    \/ \E c \in CarriedCyclesLeft : PipeInsert(c)
    \/ PipeFlush

PipeSpec == PipeSpecInit /\ [][PipeNext]_vars

\* One Pipeline: its operations in any order and then, with nothing more
\* inserted, AdvanceStages for ever; the caller's loop keeps calling.
DrainSpecInit == InitWith(Configs, 0) /\ ProcIdle /\ PipeInitWith(DrainMaxOps)

DrainNext ==
    \/ PipeAdvance
    \/ \E c \in CarriedCyclesLeft : PipeInsert(c)
    \/ PipeFlush
    \/ DrainAdvance

DrainSpec == DrainSpecInit /\ [][DrainNext]_vars /\ WF_vars(DrainAdvance)

\* One Pipeline: its operations, GetStages, and writes through the slice
\* GetStages returned, in any order.
SnapSpecInit == InitWith(Configs, 0) /\ ProcIdle /\ SnapInit

SnapNext ==
    \/ PipeAdvance
    \/ PipeInsert(1)
    \/ PipeFlush
    \/ SnapGetStages
    \/ \E i \in 1..2, v \in CarriedCyclesLeft : SnapWriteInstruction(i, v)
    \/ \E i \in 1..2 : SnapWriteStage(i, 7)

SnapSpec == SnapSpecInit /\ [][SnapNext]_vars

\* One NewPipeline call for every pair of arguments.
CtorSpecInit == InitWith(Configs, 0) /\ ProcIdle /\ CtorInit

CtorNext == CtorNewPipeline

CtorSpec == CtorSpecInit /\ [][CtorNext]_vars

\* ------------------------------------------------------------------------
\* Properties
\* ------------------------------------------------------------------------

\* Thread t begins a call in this step.
Invoked(t) == ncalls' # ncalls /\ hist'.who = t

\* Thread t is back from a Run that returned nil.
RunReturned(t) == pc[t] = "idle" /\ call[t].op = "Run" /\ ret[t] = "ok"

\* Some worker goroutine of thread t's Run has not yet lowered the WaitGroup
\* counter (sim.go:89).  A worker that has lowered it to zero and is waking
\* the sleepers inside Done() touches nothing of the simulator any more.
WorkersLive(t) == \E k \in Cores : workers[t][k].pc \notin {"none", "release"}

\* C1: under any interleaving of Run, Shutdown and Reset calls at most one
\* Run is active (past its compare-and-set and not yet returned).
C1_AtMostOneRunActive == Cardinality({t \in Threads : RunActive(t)}) <= 1

\* C2: a Run(c), c > 0, called while the running flag is true returns the
\* already-running error and leaves the flag, the stop signal, the
\* statistics, the cores, the WaitGroup and every worker as they were.
C2_RejectedRunDisturbsNothing ==
    [][\A t \in Threads :
         (Invoked(t) /\ call'[t].op = "Run" /\ call'[t].cycles > 0 /\ running)
            => /\ ret'[t] = "ErrRunning"
               /\ pc'[t] = "idle"
               /\ UNCHANGED <<running, stopChan, stats, cores, wg, workers, clock>>]_vars

\* C2 witness: a Run was rejected as already running while the workers of
\* another thread's Run are in flight.
C2_Witness ==
    \E t, u \in Threads :
        /\ t # u
        /\ pc[t] = "idle" /\ call[t].op = "Run" /\ ret[t] = "ErrRunning"
        /\ RunActive(u) /\ WorkersLive(u)

\* C3: a Run(c), c <= 0, returns the cycle-count error and leaves the flag,
\* the stop signal, the statistics, the cores, the WaitGroup and every worker
\* as they were, whether or not another Run is active.
C3_InvalidRunChangesNothing ==
    [][\A t \in Threads :
         (Invoked(t) /\ call'[t].op = "Run" /\ call'[t].cycles <= 0)
            => /\ ret'[t] = "ErrCycles"
               /\ pc'[t] = "idle"
               /\ UNCHANGED <<running, stopChan, stats, cores, wg, workers, clock>>]_vars

\* C3 witness: Run(0) was refused while another thread's Run has workers in
\* flight and the running flag is set.
C3_Witness ==
    \E t, u \in Threads :
        /\ t # u
        /\ pc[t] = "idle" /\ call[t].op = "Run" /\ call[t].cycles = 0
        /\ ret[t] = "ErrCycles"
        /\ running /\ RunActive(u) /\ WorkersLive(u)

\* C4: when a Shutdown that was called while a Run was active returns, the
\* running flag is false and that Run has no worker left: none is in flight
\* and none is still to be launched.
C4_ShutdownJoinsWorkers ==
    [][\A t \in Threads :
         (call[t].op = "Shutdown" /\ pc[t] = "sdstore" /\ pc'[t] = "idle")
            => /\ ~running'
               /\ \A u \in Threads :
                    u \in call[t].target => (pc[u] # "spawn" /\ ~WorkersLive(u))]_vars

\* The number of Cycle() calls core k has seen since thread t's Run began.
Delta(t, k) == cores[k].cycleCount - call[t].start[k]

\* stopChan was closed at some moment of thread t's Run.
StopFired(t) == call[t].stopAtStart \/ call[t].stopDuring

\* C5: once stopChan is closed a worker begins at most one more Cycle() call
\* (the one whose stop check had passed), and after a stopped Run(C) no
\* worker is left inside a Cycle() and every core's cycle count has grown by
\* a whole number in 0..C.
C5_StopAtIterationBoundary ==
    /\ \A t \in Threads : \A k \in Cores : workers[t][k].late <= 1
    /\ \A t \in Threads :
         (RunReturned(t) /\ StopFired(t))
            => \A k \in Cores : /\ workers[t][k].pc \notin InCycle
                                /\ Delta(t, k) \in 0..call[t].cycles

\* C5 witness: a Run stopped by a Shutdown has returned; one of its workers
\* began a Cycle() call after the close, and a core stopped part-way.
C5_Witness ==
    \E t \in Threads :
        /\ RunReturned(t) /\ call[t].stopDuring /\ call[t].lateSeen
        /\ \E k \in Cores : Delta(t, k) \in 1..(call[t].cycles - 1)

\* C6: when Run(C) returns and stopChan was never closed during it, every
\* worker has finished (each has lowered the WaitGroup counter, which is at
\* zero) and every core's cycle count has grown by exactly C.
C6_UnstoppedRunExecutesAllCycles ==
    \A t \in Threads :
        (RunReturned(t) /\ ~StopFired(t))
           => /\ ~WorkersLive(t)
              /\ wg.v = 0
              /\ \A k \in Cores : Delta(t, k) = call[t].cycles

\* C6 witness: an unstopped Run of more than one cycle has returned on cores
\* that had already been stepped by an earlier Run.
C6_Witness ==
    \E t \in Threads :
        /\ RunReturned(t) /\ ~StopFired(t) /\ call[t].cycles > 1
        /\ \A k \in Cores : call[t].start[k] > 0

\* C7: after an unstopped Run(C) on a freshly constructed or Reset simulator
\* TotalCycles = C, InstructionsExecuted is the sum of the cores' executed
\* counts, CoreUtilization[i] = busyCycles/cycleCount of core i, and
\* IPC * (C * number of cores) = InstructionsExecuted.
C7_StatisticsAfterRun ==
    \A t \in Threads :
        (RunReturned(t) /\ call[t].fresh /\ ~call[t].stopDuring)
           => /\ stats.TotalCycles = call[t].cycles
              /\ stats.InstructionsExecuted = SumExecuted(cores, Len(cores))
              /\ \A i \in Cores :
                    stats.CoreUtilization[i] = <<cores[i].busyCycles, cores[i].cycleCount>>
              /\ stats.IPC[1] * (call[t].cycles * Len(cores))
                    = stats.InstructionsExecuted * stats.IPC[2]

\* C7 witness: such a Run has returned with instructions executed.
C7_Witness ==
    \E t \in Threads :
        /\ RunReturned(t) /\ call[t].fresh /\ ~call[t].stopDuring
        /\ stats.InstructionsExecuted > 0
        /\ \A i \in Cores : cores[i].busyCycles > 0

\* C8: in the step in which a Run clears the running flag the statistics are
\* already that Run's statistics.
C8_StatisticsBeforeFlagCleared ==
    [][\A t \in Threads :
         (call[t].op = "Run" /\ pc[t] = "store" /\ pc'[t] = "calc"
            /\ running /\ ~running')
            => stats' = CalculateStatistics(stats', cores', call[t].cycles)]_vars

\* A new processor stepped n times.
RECURSIVE CycleN(_, _)
CycleN(p, n) == IF n = 0 THEN p ELSE CycleN(Cycle(p), n - 1)

\* The cores and the statistics of a freshly constructed simulator after an
\* undisturbed Run(c).
FreshRunCores(c) == [k \in Cores |-> CycleN(NewProcessor(k - 1, cfg), c)]
FreshRunStatistics(c) ==
    CalculateStatistics(ZeroStatistics(cfg.NumCores), FreshRunCores(c), c)

\* C9: an unstopped Run(C') that follows a Reset leaves the same statistics
\* and the same core states as Run(C') on a freshly constructed simulator.
C9_ResetThenRunAsFresh ==
    \A t \in Threads :
        (RunReturned(t) /\ call[t].fresh /\ ~call[t].stopDuring)
           => /\ cores = FreshRunCores(call[t].cycles)
              /\ stats = FreshRunStatistics(call[t].cycles)

\* C9 witness: the Run has returned after a Reset that met cores with an
\* instruction in flight, and it has itself put an instruction in flight.
C9_Witness ==
    \E t \in Threads :
        /\ RunReturned(t) /\ call[t].fresh /\ ~call[t].stopDuring
        /\ call[t].dirtyReset
        /\ \A k \in Cores : cores[k].pc > 0

\* C10: after a Reset that met a closed stopChan, a Run(C) during which no
\* Shutdown closes stopChan steps every core exactly C times.
C10_ResetReopensStopSignal ==
    \A t \in Threads :
        (RunReturned(t) /\ call[t].fresh /\ call[t].stopReset /\ ~call[t].stopDuring)
           => /\ ~call[t].stopAtStart
              /\ \A k \in Cores : Delta(t, k) = call[t].cycles

\* C10 witness: such a Run has returned.
C10_Witness ==
    \E t \in Threads :
        /\ RunReturned(t) /\ call[t].fresh /\ call[t].stopReset /\ ~call[t].stopDuring
        /\ call[t].cycles > 1

\* C11: a Shutdown called while no Run is active returns at once and leaves
\* stopChan, the running flag, the statistics, the cores, the WaitGroup and
\* the workers as they were.
C11_IdleShutdownChangesNothing ==
    [][\A t \in Threads :
         (Invoked(t) /\ call'[t].op = "Shutdown" /\ \A u \in Threads : ~RunActive(u))
            => /\ pc'[t] = "idle"
               /\ UNCHANGED <<running, stopChan, stats, cores, wg, workers, clock>>]_vars

\* C11 witness: the latest call was a Shutdown that found nothing running,
\* made after a Run had stepped the cores and left statistics; stopChan is
\* still open.
C11_Witness ==
    \E t \in Threads :
        /\ hist.who = t /\ pc[t] = "idle"
        /\ call[t].op = "Shutdown" /\ ~call[t].sawRunning
        /\ \A u \in Threads : ~RunActive(u)
        /\ stopChan = "open" /\ ~running
        /\ stats.TotalCycles > 0
        /\ \A k \in Cores : cores[k].cycleCount > 0

\* A goroutine is inside Cycle() or Reset(), past p.mutex.Lock().
InsideLocked(g) == gor[g].op \in {"Cycle", "Reset"} /\ gor[g].pc \notin {"idle", "lock"}

\* C12: after Cycle() calls and register writes, Reset() leaves the Processor
\* as NewProcessor built it (counters, program counter, registers, execution
\* units, empty pipeline with the same stage names and latencies), and k
\* Cycle() calls later it is what a new Processor is after k Cycle() calls.
C12_ResetRestoresConstruction ==
    (pmutex = "free" /\ chist.resets > 0 /\ ~chist.written)
       => proc = CycleN(NewProcessor(0, cfg), chist.k)

\* C12 witness: five Cycle() calls and a register write, then Reset(), then
\* five more Cycle() calls have completed.
C12_Witness ==
    /\ \A g \in Goroutines : gor[g].pc = "idle"
    /\ chist.resets > 0 /\ chist.writesLeft = 0 /\ ~chist.written
    /\ chist.cyclesLeft = ProcMaxCycles - 10 /\ chist.k = 5
    /\ \E i \in DOMAIN proc.pipeline : proc.pipeline[i].Busy

\* C13: at most one goroutine is inside Cycle() or Reset() of the core, and
\* whenever the mutex is free the core is in the state the completed calls
\* produce when executed one at a time in the order of their unlocks.
C13_CycleResetSerialized ==
    /\ Cardinality({g \in Goroutines : InsideLocked(g)}) <= 1
    /\ pmutex = "free" => proc = chist.shadow

\* C13 witness: a goroutine is in the middle of a Cycle() that fetches while
\* another waits for the mutex in Reset().
C13_Witness ==
    \E g, h \in Goroutines :
        /\ gor[g].op = "Cycle" /\ gor[g].pc = "retire"
        /\ gor[h].op = "Reset" /\ gor[h].pc = "lock"
        /\ proc.cycleCount = FetchInterval /\ proc.pipeline[1].Busy

\* C14: the value GetUtilization() returns is busyCycles/cycleCount (0 when
\* cycleCount is 0) of one state the core held during the call, and lies in
\* [0, 1].
C14_UtilizationIsSnapshot ==
    \A g \in Goroutines :
        (gor[g].op = "GetUtilization" /\ gor[g].pc = "idle")
           => /\ 0 <= gor[g].ret[1] /\ gor[g].ret[1] <= gor[g].ret[2]
              /\ \E s \in gor[g].window :
                    gor[g].ret[1] * GetUtilization([busyCycles |-> s[1], cycleCount |-> s[2]])[2]
                      = GetUtilization([busyCycles |-> s[1], cycleCount |-> s[2]])[1] * gor[g].ret[2]

\* The addresses of the instructions the stages hold.
Held(stages) == {Occupant(stages, i) : i \in DOMAIN stages} \ {-1}

\* The last call was AdvanceStages.
Advanced == pl.lastOp = "Advance"

\* C15: an AdvanceStages call moves every instruction forward by at most one
\* stage, drops none before the final stage, keeps the relative order of the
\* instructions, and the instructions leave the final stage in the order in
\* which they were inserted.
C15_AdvanceKeepsOrder ==
    /\ Advanced =>
         /\ \A x \in Held(pl.prev) :
              LET i == Position(pl.prev, x)
                  j == Position(pl.Stages, x)
              IN \/ j = i
                 \/ j = i + 1
                 \/ (j = 0 /\ i = Len(pl.prev))
         /\ \A x, y \in Held(pl.prev) \cap Held(pl.Stages) :
              Position(pl.prev, x) < Position(pl.prev, y)
                 => Position(pl.Stages, x) < Position(pl.Stages, y)
         /\ Held(pl.Stages) \subseteq Held(pl.prev)
    /\ \A m, n \in DOMAIN pl.retired : m < n => pl.retired[m] < pl.retired[n]

\* C15 witness: two instructions have left the final stage, and the last
\* call moved two instructions at once.
C15_Witness ==
    /\ Advanced
    /\ Len(pl.retired) >= 2
    /\ Cardinality({x \in Held(pl.prev) \cap Held(pl.Stages) :
                       Position(pl.Stages, x) = Position(pl.prev, x) + 1}) >= 2

\* Stage i is the final stage or its next stage held nothing when the last
\* call began.
NextWasFree(i) == i = Len(pl.prev) \/ ~pl.prev[i + 1].Busy

\* C16: an instruction that enters a stage gets CyclesLeft = the stage's
\* latency; with a free next stage it stays in stage k through the first
\* latency(k) - 1 AdvanceStages calls after it entered and leaves on the
\* latency(k)-th.
C16_StageHoldsForLatency ==
    /\ \A i \in DOMAIN pl.Stages :
         (Occupant(pl.Stages, i) # -1 /\ Occupant(pl.Stages, i) # Occupant(pl.prev, i))
            => pl.Stages[i].Instruction[1].CyclesLeft = pl.Stages[i].Latency
    /\ Advanced =>
         \A i \in DOMAIN pl.prev :
            LET x == Occupant(pl.prev, i)
                n == pl.prevAge[i] + 1
            IN (x # -1 /\ NextWasFree(i))
                  => /\ n < pl.prev[i].Latency => Position(pl.Stages, x) = i
                     /\ n = pl.prev[i].Latency =>
                           Position(pl.Stages, x) = (IF i = Len(pl.prev) THEN 0 ELSE i + 1)

\* C16 witness: an instruction has just left a stage of latency 3 on its
\* third call there.
C16_Witness ==
    /\ Advanced
    /\ \E i \in DOMAIN pl.prev :
          /\ pl.prev[i].Latency = 3 /\ pl.prevAge[i] = 2
          /\ Occupant(pl.prev, i) # -1
          /\ Position(pl.Stages, Occupant(pl.prev, i)) = i + 1

\* C17 as stated: if stage i and stage i+1 both hold an instruction when
\* AdvanceStages is called, stage i holds the same instruction after the call.
C17_OccupiedNextStalls ==
    Advanced =>
        \A i \in 1..(Len(pl.prev) - 1) :
            (pl.prev[i].Busy /\ pl.prev[i + 1].Busy)
               => /\ pl.Stages[i].Busy
                  /\ Occupant(pl.Stages, i) = Occupant(pl.prev, i)

\* The instruction that stage j held when the last call began has moved to
\* stage j+1 or, from the final stage, out of the pipeline.
LeftStage(j) ==
    LET y == Occupant(pl.prev, j)
    IN \/ Position(pl.Stages, y) = j + 1
       \/ (j = Len(pl.prev) /\ Position(pl.Stages, y) = 0)

\* C17 amended: if stage i and stage i+1 both hold an instruction when
\* AdvanceStages is called and the instruction of stage i+1 does not leave
\* its stage in that call, stage i holds the same instruction after the call.
C17_StillOccupiedNextStalls ==
    Advanced =>
        \A i \in 1..(Len(pl.prev) - 1) :
            (/\ pl.prev[i].Busy /\ pl.prev[i + 1].Busy
             /\ ~LeftStage(i + 1))
               => /\ pl.Stages[i].Busy
                  /\ Occupant(pl.Stages, i) = Occupant(pl.prev, i)

\* C17 witness: an instruction that had completed its stage's latency was
\* held back by the instruction that stayed in the next stage.
C17_Witness ==
    /\ Advanced
    /\ \E i \in 1..(Len(pl.prev) - 1) :
          /\ pl.prev[i].Busy /\ pl.prev[i + 1].Busy
          /\ ~LeftStage(i + 1)
          /\ Occupant(pl.Stages, i) = Occupant(pl.prev, i)
          /\ pl.age[i] >= pl.prev[i].Latency

\* C18: no instruction's CyclesLeft is negative, and an instruction that has
\* stayed in a stage for the stage's latency or longer has CyclesLeft = 0.
C18_CyclesLeftPinnedAtZero ==
    \A i \in DOMAIN pl.Stages :
        Occupant(pl.Stages, i) # -1
           => /\ pl.Stages[i].Instruction[1].CyclesLeft >= 0
              /\ pl.age[i] >= pl.Stages[i].Latency
                    => pl.Stages[i].Instruction[1].CyclesLeft = 0

\* C19: InsertInstruction returns true exactly when stage 0 held nothing.
\* On success stage 0 is occupied by the instruction, whose CyclesLeft is now
\* stage 0's latency whatever value it carried, the caller's instruction is
\* that same instruction, and every other stage is unchanged.  On failure
\* the call returns false and no stage and no field of the instruction is
\* changed.  Either way the number of stages is as before and stage 0 is
\* occupied after the call.
C19_InsertIffStageZeroFree ==
    pl.lastOp = "Insert" =>
        /\ pl.ok <=> ~pl.prev[1].Busy
        /\ pl.ok <=> ~IsFull(pl.prev)
        /\ Len(pl.Stages) = Len(pl.prev)
        /\ IsFull(pl.Stages)
        /\ pl.ok =>
             /\ pl.Stages[1].Busy
             /\ pl.Stages[1].Instruction
                   = <<[pl.arg EXCEPT !.CyclesLeft = pl.prev[1].Latency]>>
             /\ pl.Stages[1].Instruction[1].CyclesLeft = pl.prev[1].Latency
             /\ pl.argAfter = pl.Stages[1].Instruction[1]
             /\ pl.Stages[1].Name = pl.prev[1].Name
             /\ pl.Stages[1].Latency = pl.prev[1].Latency
             /\ \A i \in 2..Len(pl.prev) : pl.Stages[i] = pl.prev[i]
        /\ ~pl.ok => (pl.Stages = pl.prev /\ pl.argAfter = pl.arg)

\* C19 witness: an instruction carrying CyclesLeft 7 was accepted into a
\* stage 0 of latency 1 while a later stage was occupied, and an earlier
\* InsertInstruction call on this pipeline had been refused (the calls made
\* so far, pl.next - 1, are more than the instructions accepted).
C19_Witness ==
    /\ pl.lastOp = "Insert" /\ pl.ok
    /\ pl.arg.CyclesLeft = 7 /\ pl.prev[1].Latency = 1
    /\ pl.argAfter.CyclesLeft = 1
    /\ \E i \in 2..Len(pl.Stages) : pl.Stages[i].Busy
    /\ pl.next - 1 > pl.accepted

\* C20: after Flush every stage is unoccupied and holds no instruction,
\* IsEmpty is true and IsFull false, and the number of stages and every
\* stage's name and latency are as before, whatever the pipeline held when
\* Flush was called.
C20_FlushEmptiesEveryStage ==
    pl.lastOp = "Flush" =>
        /\ \A i \in DOMAIN pl.Stages :
              ~pl.Stages[i].Busy /\ pl.Stages[i].Instruction = <<>>
        /\ Held(pl.Stages) = {}
        /\ IsEmpty(pl.Stages)
        /\ ~IsFull(pl.Stages)
        /\ Len(pl.Stages) = Len(pl.prev)
        /\ \A i \in DOMAIN pl.prev :
              /\ pl.Stages[i].Name = pl.prev[i].Name
              /\ pl.Stages[i].Latency = pl.prev[i].Latency

\* C20 witness: Flush was called on a pipeline with stage 0 and another
\* stage occupied, one of them by an instruction part-way through a stage
\* of latency 3, and an earlier Flush on this pipeline had dropped
\* instructions as well.
C20_Witness ==
    /\ pl.lastOp = "Flush"
    /\ IsFull(pl.prev)
    /\ Cardinality(Held(pl.prev)) >= 2
    /\ \E i \in DOMAIN pl.prev :
          /\ pl.prev[i].Busy /\ pl.prev[i].Latency = 3
          /\ pl.prev[i].Instruction[1].CyclesLeft \in {1, 2}
    /\ pl.flushed > Cardinality(Held(pl.prev))

\* ---- Cycle: fetch and retirement ------------------------------------------

\* The goroutine of CoreSpec is back from a Cycle() call.
CycleReturned == gor # <<>> /\ gor["g1"].op = "Cycle" /\ gor["g1"].pc = "idle"

\* In the Cycle() that returned, stage 0 was unoccupied after AdvanceStages
\* and the incremented cycle count is a multiple of the fetch interval.
FetchDue == ~chist.adv[1].Busy /\ proc.cycleCount % FetchInterval = 0

\* C25: in each Cycle(), after AdvanceStages has run, exactly one new
\* instruction is synthesized and inserted into stage 0 iff stage 0 is
\* unoccupied and the incremented cycle count is a multiple of 5; otherwise
\* none is synthesized and the program counter is unchanged.  The inserted
\* instruction is not advanced in that cycle: it is in stage 0 when the call
\* returns, with the whole latency of stage 0 before it.
C25_FetchIffFreeOnFifthCycle ==
    CycleReturned =>
        /\ proc.cycleCount = chist.pre.cycleCount + 1
        /\ chist.fetched <=> FetchDue
        /\ chist.inserted <=> FetchDue
        /\ IF FetchDue
           THEN /\ proc.pc = chist.pre.pc + InstrBytes
                /\ proc.pipeline[1].Busy
                /\ Occupant(proc.pipeline, 1) = chist.pre.pc
                /\ Position(chist.adv, chist.pre.pc) = 0
                /\ proc.pipeline[1].Instruction[1].CyclesLeft = proc.pipeline[1].Latency
                /\ \A i \in 2..Len(proc.pipeline) : proc.pipeline[i] = chist.adv[i]
           ELSE /\ proc.pc = chist.pre.pc
                /\ proc.pipeline = chist.adv

\* A fifth cycle met an occupied stage 0 and fetched nothing, after earlier
\* fifth cycles had fetched.
C25_Witness ==
    /\ CycleReturned
    /\ proc.cycleCount % FetchInterval = 0
    /\ chist.adv[1].Busy
    /\ ~chist.fetched
    /\ chist.synth >= 2

\* C26: in each Cycle() the executed-instruction counter increases by
\* exactly 1 iff, at the end of that cycle's advance and fetch steps, the
\* cycle count is a multiple of 5 and the final stage is unoccupied; in every
\* other cycle it is unchanged.
C26_ExecutedCountsFreeFinalStage ==
    CycleReturned =>
        proc.executedInstructions =
            chist.pre.executedInstructions
              + (IF /\ proc.cycleCount % FetchInterval = 0
                    /\ ~proc.pipeline[Len(proc.pipeline)].Busy
                 THEN 1 ELSE 0)

\* A fifth cycle ended with the final stage occupied and counted nothing,
\* after an earlier one had counted.
C26_Witness ==
    /\ CycleReturned
    /\ proc.cycleCount % FetchInterval = 0
    /\ proc.pipeline[Len(proc.pipeline)].Busy
    /\ proc.executedInstructions = chist.pre.executedInstructions
    /\ proc.executedInstructions >= 1

\* C27: between calls, the executed-instruction count equals the number of
\* instructions that have left the final stage since construction or the
\* last Reset.
C27_ExecutedEqualsRetired ==
    (gor # <<>> /\ gor["g1"].pc = "idle") =>
        GetExecutedInstructions(proc) = chist.retired

\* C28: with the default configuration, after TestCycles cycles from the
\* initial state each core's executed-instruction count is between 10 and 20
\* and its utilization is strictly between 0 and 1.  (util is busy/cycles as
\* <<busy, cycles>>.  Every core of the simulator is constructed as the
\* Processor of CoreSpec but for its ID and is driven by its own worker
\* through whole Cycle() calls, whose effect chist.shadow accumulates.)
C28_DefaultRunCounts ==
    (/\ cfg = [NumCores |-> 4, ISA |-> "RISC-V", PipelineDepth |-> 5]
     /\ CycleReturned
     /\ ~chist.touched
     /\ proc.cycleCount = TestCycles)
        => /\ GetExecutedInstructions(proc) >= 10
           /\ GetExecutedInstructions(proc) <= 20
           /\ LET util == GetUtilization(proc)
              IN 0 < util[1] /\ util[1] < util[2]
           /\ chist.shadow = proc
           /\ \A k \in Cores :
                 cores[k] = [NewProcessor(0, cfg) EXCEPT !.ID = k - 1]

\* The default configuration has been through TestCycles cycles.
C28_Witness ==
    /\ cfg = [NumCores |-> 4, ISA |-> "RISC-V", PipelineDepth |-> 5]
    /\ CycleReturned
    /\ ~chist.touched
    /\ proc.cycleCount = TestCycles
    /\ GetExecutedInstructions(proc) = 20

\* No Reset() is in progress.
NoResetInProgress == \A g \in DOMAIN gor : gor[g].op = "Reset" => gor[g].pc = "idle"

\* C29: the program counter is 4 times the number of instructions
\* synthesized since construction or the last Reset, every synthesized
\* instruction is accepted by the pipeline, and the instructions in the
\* pipeline carry the addresses 0, 4, 8, ... in the order of their insertion
\* (the instruction just inserted carries the address before the program
\* counter, and a later stage holds a smaller address).
C29_ProgramCounterCountsFetches ==
    gor # <<>> =>
        /\ proc.pc = InstrBytes * chist.synth
        /\ chist.accepted = chist.synth
        /\ NoResetInProgress =>
              /\ \A i \in DOMAIN proc.pipeline :
                    proc.pipeline[i].Busy =>
                        /\ Occupant(proc.pipeline, i) % InstrBytes = 0
                        /\ Occupant(proc.pipeline, i) >= 0
                        /\ Occupant(proc.pipeline, i) < proc.pc
              /\ \A i, j \in DOMAIN proc.pipeline :
                    (i < j /\ proc.pipeline[i].Busy /\ proc.pipeline[j].Busy)
                        => Occupant(proc.pipeline, i) > Occupant(proc.pipeline, j)
              /\ (CycleReturned /\ chist.fetched)
                    => Occupant(proc.pipeline, 1) = proc.pc - InstrBytes

\* After a Reset, instructions 0 and 4 are in the pipeline together, and a
\* fifth cycle has passed without a fetch.
C29_Witness ==
    /\ CycleReturned
    /\ chist.resets >= 1
    /\ chist.synth >= 2
    /\ Position(proc.pipeline, 0) # 0
    /\ Position(proc.pipeline, InstrBytes) # 0
    /\ proc.pc < InstrBytes * (proc.cycleCount \div FetchInterval)

\* ---- AdvanceStages: one pass --------------------------------------------

\* Every stage held an instruction with CyclesLeft 1 when the call began.
AllStagesDue ==
    \A i \in DOMAIN pl.prev :
        pl.prev[i].Busy /\ pl.prev[i].Instruction[1].CyclesLeft = 1

\* C30: within one AdvanceStages call, if the instruction of stage i+1
\* leaves its stage and the instruction of stage i has finished its latency,
\* the instruction of stage i moves into stage i+1 in that same call (with
\* CyclesLeft set to that stage's latency); when every stage holds an
\* instruction with CyclesLeft 1, one call retires the last instruction,
\* shifts every other one forward by one stage and leaves stage 0 free.
C30_FreedStageRefillsInSamePass ==
    Advanced =>
        /\ \A i \in 1..(Len(pl.prev) - 1) :
              (/\ pl.prev[i].Busy /\ pl.prev[i + 1].Busy
               /\ LeftStage(i + 1)
               /\ pl.prev[i].Instruction[1].CyclesLeft <= 1)
                 => /\ Occupant(pl.Stages, i + 1) = Occupant(pl.prev, i)
                    /\ pl.Stages[i + 1].Busy
                    /\ pl.Stages[i + 1].Instruction[1].CyclesLeft = pl.Stages[i + 1].Latency
        /\ AllStagesDue =>
              /\ ~pl.Stages[1].Busy /\ pl.Stages[1].Instruction = <<>>
              /\ \A i \in 1..(Len(pl.prev) - 1) :
                    /\ pl.Stages[i + 1].Busy
                    /\ Occupant(pl.Stages, i + 1) = Occupant(pl.prev, i)
              /\ Position(pl.Stages, Occupant(pl.prev, Len(pl.prev))) = 0
              /\ pl.retired # <<>>
              /\ pl.retired[Len(pl.retired)] = Occupant(pl.prev, Len(pl.prev))

\* A call met a full pipeline, every instruction with CyclesLeft 1.
C30_Witness ==
    /\ Advanced
    /\ AllStagesDue
    /\ Len(pl.prev) >= 3

\* ---- GetStages ------------------------------------------------------------

\* C21: no write made through the slice GetStages returned, a write to a
\* field of an instruction a snapshot stage points to included, alters the
\* live pipeline's stages.
C21_SnapshotIndependent ==
    pl.lastOp = "SnapWrite" => pl.Stages = pl.prev

\* ---- NewPipeline ----------------------------------------------------------

\* C22: NewPipeline(depth, isa) returns an error and no pipeline when
\* depth <= 0, and for every depth >= 1 and every ISA it returns, without
\* crashing, a pipeline with exactly depth stages, all of them unoccupied.
C22_ConstructorTotal ==
    np.pc = "done" =>
        IF np.depth <= 0
        THEN np.res.err = "depth" /\ np.res.Stages = <<>>
        ELSE /\ np.res.err = ""
             /\ Len(np.res.Stages) = np.depth
             /\ \A i \in 1..np.depth :
                    ~np.res.Stages[i].Busy /\ np.res.Stages[i].Instruction = <<>>

\* C23: for every depth >= 1 and every ISA, stage 0 of the constructed
\* pipeline is named "Fetch" or "Fetch1".
C23_StageZeroFetches ==
    (np.pc = "done" /\ np.depth >= 1 /\ np.res.err = "") =>
        np.res.Stages[1].Name \in {"Fetch", "Fetch1"}

\* C24: for every depth >= 3 and every ISA, the last stage of the constructed
\* pipeline is named "Writeback".
C24_LastStageWriteback ==
    (np.pc = "done" /\ np.depth >= 3 /\ np.res.err = "") =>
        np.res.Stages[np.depth].Name = "Writeback"

\* The sum of the latencies of the first n stages.
RECURSIVE SumLatency(_, _)
SumLatency(stages, n) ==
    IF n = 0 THEN 0 ELSE stages[n].Latency + SumLatency(stages, n - 1)

\* Only AdvanceStages is called from here on.
Draining == pl.ops = 0

\* C31: once nothing more is inserted, repeated AdvanceStages calls empty the
\* pipeline for good; and an instruction inserted alone into an empty
\* pipeline leaves the final stage on exactly the call whose number is the
\* sum of all stage latencies.
C31_DrainsAfterSumOfLatencies ==
    /\ [](Advanced /\ pl.solo >= 1
            => /\ IsEmpty(pl.Stages) <=> pl.solo = SumLatency(pl.Stages, Len(pl.Stages))
               /\ (Occupant(pl.prev, Len(pl.prev)) # -1 /\ LeftStage(Len(pl.prev)))
                     <=> pl.solo = SumLatency(pl.Stages, Len(pl.Stages)))
    /\ (Draining ~> [](Draining /\ IsEmpty(pl.Stages)))

\* C31 witness: the draining calls have emptied the pipeline; the last
\* instruction had been inserted alone after an earlier one had retired, and
\* it left on the call whose number is the sum of the latencies.
C31_Witness ==
    /\ Draining /\ Advanced
    /\ IsEmpty(pl.Stages) /\ ~IsEmpty(pl.prev)
    /\ Len(pl.retired) >= 2
    /\ pl.solo = SumLatency(pl.Stages, Len(pl.Stages))

\* Stage i of stages is occupied: busy, with a non-nil instruction.
Occupied(stages, i) == stages[i].Busy /\ stages[i].Instruction # <<>>

\* C32: AdvanceStages returns true iff at least one stage was occupied when
\* the call began, also when no instruction changed stage; on an empty
\* pipeline it returns false and changes nothing.
C32_WorkDoneIffOccupied ==
    Advanced
       => /\ pl.work <=> \E i \in DOMAIN pl.prev : Occupied(pl.prev, i)
          /\ IsEmpty(pl.prev) => (~pl.work /\ pl.Stages = pl.prev)

\* C32 witness: a call returned true in which no instruction changed stage:
\* one was counted down in a multi-cycle stage and the one behind it was
\* stalled.
C32_Witness ==
    /\ Advanced /\ pl.work
    /\ \A i \in DOMAIN pl.prev : Occupant(pl.Stages, i) = Occupant(pl.prev, i)
    /\ \E i \in DOMAIN pl.prev :
          /\ i < Len(pl.prev)
          /\ Occupied(pl.prev, i) /\ pl.prev[i].Instruction[1].CyclesLeft <= 1
          /\ Occupied(pl.prev, i + 1) /\ pl.prev[i + 1].Instruction[1].CyclesLeft > 1

\* The instructions the last operation may have removed: the occupant of the
\* final stage for AdvanceStages, every occupant for Flush.
MayLeave ==
    IF pl.lastOp = "Advance" THEN {Occupant(pl.prev, Len(pl.prev))} \ {-1}
    ELSE IF pl.lastOp = "Flush" THEN Held(pl.prev)
    ELSE {}

\* The instruction the last operation has put into the pipeline.
Entered ==
    IF pl.lastOp = "Insert" /\ pl.ok THEN {pl.arg.Address} ELSE {}

\* C34: under any sequence of InsertInstruction, AdvanceStages and Flush
\* calls no instruction is duplicated or silently lost: an accepted
\* instruction is in exactly one stage until it leaves the final stage or is
\* flushed, a stage is busy iff it holds an instruction, and the number of
\* occupied stages is accepted inserts minus retirements minus flushed
\* instructions.
C34_InstructionsConserved ==
    /\ \A i \in DOMAIN pl.Stages : pl.Stages[i].Busy <=> pl.Stages[i].Instruction # <<>>
    /\ \A i, j \in DOMAIN pl.Stages :
          (i # j /\ Occupant(pl.Stages, i) # -1)
             => Occupant(pl.Stages, i) # Occupant(pl.Stages, j)
    /\ Held(pl.Stages) \ Held(pl.prev) = Entered
    /\ Held(pl.prev) \ Held(pl.Stages) \subseteq MayLeave
    /\ \A k \in DOMAIN pl.retired :
          /\ pl.retired[k] \notin Held(pl.Stages)
          /\ \A l \in DOMAIN pl.retired : k # l => pl.retired[k] # pl.retired[l]
    /\ OccupiedStages(pl.Stages) = pl.accepted - Len(pl.retired) - pl.flushed

\* C34 witness: instructions have been accepted, refused, retired and
\* flushed, and two are in the pipeline.
C34_Witness ==
    /\ pl.accepted >= 4 /\ pl.next - 1 > pl.accepted
    /\ pl.retired # <<>> /\ pl.flushed >= 1
    /\ OccupiedStages(pl.Stages) = 2

\* The goroutine is between two calls.
BetweenCalls == gor # <<>> /\ gor["g1"].pc = "idle"

\* C33: in each Cycle() the cycle counter grows by exactly 1 and the
\* busy-cycle counter grows by exactly 1 iff the pipeline held an instruction
\* when the cycle began or one was inserted during it, and is unchanged
\* otherwise; between cycles 0 <= busyCycles <= cycleCount.
C33_BusyCountsWorkingCycles ==
    /\ CycleReturned =>
          /\ proc.cycleCount = chist.pre.cycleCount + 1
          /\ proc.busyCycles =
                chist.pre.busyCycles
                  + (IF \/ \E i \in DOMAIN chist.pre.pipeline : Occupied(chist.pre.pipeline, i)
                        \/ chist.inserted
                     THEN 1 ELSE 0)
    /\ BetweenCalls => (0 <= proc.busyCycles /\ proc.busyCycles <= proc.cycleCount)

\* C33 witness: a cycle that began with an instruction in flight and inserted
\* none was counted busy, after idle cycles and a cycle made busy by its
\* insert alone.
C33_Witness ==
    /\ CycleReturned
    /\ ~chist.inserted
    /\ proc.busyCycles = chist.pre.busyCycles + 1
    /\ proc.busyCycles >= 2
    /\ proc.busyCycles < proc.cycleCount

\* C35: on a core built by NewProcessor nothing stalls under the synthetic
\* workload: no instruction that has finished its stage stays in it, stage 0
\* is unoccupied at every cycle whose number is a multiple of 5 and exactly
\* one instruction is inserted in it, and after N cycles the program counter
\* is 4 * floor(N / 5).
C35_SyntheticWorkloadNeverStalls ==
    (CycleReturned /\ ~chist.touched) =>
        /\ \A i \in DOMAIN chist.pre.pipeline :
              (Occupied(chist.pre.pipeline, i)
                 /\ chist.pre.pipeline[i].Instruction[1].CyclesLeft <= 1)
                 => Position(chist.adv, Occupant(chist.pre.pipeline, i)) # i
        /\ proc.cycleCount % FetchInterval = 0
              => (~chist.adv[1].Busy /\ chist.fetched /\ chist.inserted)
        /\ proc.cycleCount % FetchInterval # 0 => ~chist.fetched
        /\ proc.pc = InstrBytes * (proc.cycleCount \div FetchInterval)

\* C35 witness: the hundredth cycle has inserted the twentieth instruction on
\* the pipeline with the two-cycle Decode.
C35_Witness ==
    /\ CycleReturned /\ ~chist.touched
    /\ proc.cycleCount = TestCycles /\ chist.inserted
    /\ proc.pc = InstrBytes * 20
    /\ \E i \in DOMAIN proc.pipeline : proc.pipeline[i].Latency = 2

\* C36: a Run(C) that follows a Shutdown which stopped a Run, with no Reset
\* in between, passes the running-flag check and returns nil, makes no
\* Cycle() call on any core (stopChan is still closed) and sets
\* Statistics.TotalCycles to C.
C36_RunAfterShutdownRunsNothing ==
    /\ (pc["t1"] = "idle" /\ panicked = "") => ~running
    /\ \A t \in Threads :
         (call[t].op = "Run" /\ call[t].stopAtStart)
            => /\ \A k \in Cores : Delta(t, k) = 0
               /\ \A k \in Cores : workers[t][k].pc \notin {"cycle"} \cup InCycle
               /\ pc[t] = "idle"
                    => (ret[t] = "ok" /\ stats.TotalCycles = call[t].cycles)

\* C36 witness: a Run(StopCycles) begun on a closed stopChan has returned
\* nil; the cores stand where the stopped Run before it left them.
C36_Witness ==
    \E t \in Threads :
        /\ RunReturned(t) /\ call[t].stopAtStart
        /\ call[t].cycles = StopCycles
        /\ stats.TotalCycles = StopCycles
        /\ \E k \in Cores : cores[k].cycleCount \in 1..(StopCycles - 1)

\* The cores of the simulator's configuration, core k stepped n[k] times
\* alone since construction.
SteppedCores(n) == [k \in Cores |-> CycleN(NewProcessor(k - 1, cfg), n[k])]

\* The cycles every core has been asked for when thread t's Run is over.
Asked(t) == [k \in Cores |-> call[t].start[k] + call[t].cycles]

\* C37: the per-core counters are not cleared between Runs: when a Run(C2)
\* that met cores already stepped by earlier Runs (no Reset since) has
\* returned and no Shutdown has closed stopChan, each core's cycle count is
\* the count it had when the Run began plus C2, TotalCycles = C2, InstructionsExecuted is the executed
\* count accumulated over all those cycles, and IPC * (C2 * number of cores)
\* is that accumulated count.
C37_CountersAccumulateAcrossRuns ==
    \A t \in Threads :
        (RunReturned(t) /\ ~StopFired(t) /\ \A k \in Cores : call[t].start[k] > 0)
           => LET acc == SumExecuted(SteppedCores(Asked(t)), Len(cores))
              IN /\ \A k \in Cores :
                       /\ cores[k].cycleCount = Asked(t)[k]
                       /\ GetExecutedInstructions(cores[k])
                             = GetExecutedInstructions(SteppedCores(Asked(t))[k])
                 /\ stats.TotalCycles = call[t].cycles
                 /\ stats.InstructionsExecuted = acc
                 /\ stats.IPC[2] > 0
                 /\ stats.IPC[1] * (call[t].cycles * Len(cores)) = acc * stats.IPC[2]

\* C37 witness: Run(MaxCycles) and again Run(MaxCycles) have returned; the
\* instructions counted are those of both Runs.
C37_Witness ==
    \E t \in Threads :
        /\ RunReturned(t) /\ ~StopFired(t) /\ ~call[t].fresh
        /\ call[t].cycles = MaxCycles
        /\ \A k \in Cores : call[t].start[k] = MaxCycles
        /\ stats.TotalCycles = MaxCycles
        /\ stats.InstructionsExecuted >= 2 * cfg.NumCores

\* C38: under any interleaving of Run and Shutdown calls a given stopChan is
\* closed at most once: no Shutdown closes a closed channel, so the process
\* never dies in close().
C38_StopSignalClosedOnce == panicked # CloseOfClosed

\* A core's state but for its ID.
Anonymous(p) == [p EXCEPT !.ID = 0]

\* C39: the outcome of a Run(C) that is not stopped does not depend on how
\* the workers interleave: whenever no worker is inside a Cycle() of it, a
\* core is what a new core stepped alone as many times is, and when the Run
\* has returned every
\* core has made exactly C more cycles, all cores are in the same state, and
\* the Statistics are those computed from cores stepped alone.
C39_RunOutcomeScheduleIndependent ==
    /\ \A k \in Cores :
          ~CoreLocked(k)
             => cores[k] = CycleN(NewProcessor(k - 1, cfg), cores[k].cycleCount)
    /\ \A t \in Threads :
          (RunReturned(t) /\ ~StopFired(t))
             => /\ \A k \in Cores : ~CoreLocked(k)
                /\ cores = SteppedCores(Asked(t))
                /\ \A j, k \in Cores : Anonymous(cores[j]) = Anonymous(cores[k])
                /\ stats = CalculateStatistics(ZeroStatistics(cfg.NumCores),
                                               SteppedCores(Asked(t)), call[t].cycles)

\* C39 witness: an unstopped Run(MaxCycles) on several cores has returned
\* with an instruction in flight on every core.
C39_Witness ==
    \E t \in Threads :
        /\ RunReturned(t) /\ ~StopFired(t)
        /\ call[t].cycles = MaxCycles
        /\ Len(cores) >= 2
        /\ \A k \in Cores : ~IsEmpty(cores[k].pipeline)

\* C40: every accepted Run(C) terminates under fair scheduling of its
\* goroutines, whether or not Shutdown is called: it eventually returns nil
\* and the running flag eventually is false again.
C40_AcceptedRunTerminates ==
    \A t \in Threads :
        RunActive(t) ~> (RunReturned(t) /\ ~running)

\* An accepted Run ends unless the process dies first: no worker makes more
\* than C iterations and none blocks.
RunEndsUnlessProcessDies ==
    /\ \A t \in Threads :
          RunActive(t) ~> ((RunReturned(t) /\ ~running) \/ panicked # "")
    /\ [](\A t \in Threads : \A k \in Cores :
            workers[t][k].pc \in {"select", "cycle"} \cup InCycle
               => workers[t][k].i < call[t].cycles)
====
